---------------------------- MODULE Spec2Model ----------------------------
(***************************************************************************)
(* Antenna placement optimizer: the six search drivers of                  *)
(* backend/app/algorithms (greedy, genetic, hill climbing, simulated       *)
(* annealing, tabu search, VNS) over one grid / house / catalog model.     *)
(*                                                                         *)
(* A run is one algorithm object: Init is the state after __init__, the    *)
(* actions are the steps of optimize().  Random draws of the drivers are   *)
(* choices (\E) over every value the draw can return.                      *)
(*                                                                         *)
(* Energies are Python floats; here they are exact rationals scaled to     *)
(* integers by the (per run constant) factor COST_DIVISOR * max_budget.    *)
(***************************************************************************)
EXTENDS Integers, Sequences, FiniteSets, TLC

(***************************************************************************)
(* Program constants                                                       *)
(***************************************************************************)
USERS_PER_HOUSE == 20
UNCOVERED_USER_PENALTY == 10
SA_COST_DIVISOR == 5000
LS_COST_DIVISOR == 1000
SA_MAX_INITIAL_ANTENNAS == 10
LS_MAX_INITIAL_ANTENNAS == 5
GA_DEFAULT_MAX_ANTENNAS == 15
GA_TOURNAMENT_SIZE == 3
GA_COVERAGE_WEIGHT == 100
GA_COST_WEIGHT == 50
GA_FULL_BONUS == 50
HC_ADD_SAMPLES == 20
TABU_ADD_SAMPLES == 10
LS_MOVE_SAMPLES == 5
BUDGET_PENALTY == 100
VNS_BUDGET_PENALTY == 100000
VNS_LOCAL_ITERS == 50

\* Python's None for an optional int argument (max_budget, max_antennas, seed)
None == -1

\* bounds of the exploration
MaxSeed == 2
MaxObjects == 2
MaxOthers == 1
MaxIterations == 3
MaxGenerations == 2
MaxTemperature == 8

\* Python truthiness of an optional int: None and 0 are both false
Truthy(v) == v # None /\ v # 0

(***************************************************************************)
(* The antenna_specs argument: a catalog in dict (insertion) order.        *)
(* Names, capacities and costs are those of models.ANTENNA_SPECS; the      *)
(* radii are scaled to the small grids explored here.                      *)
(***************************************************************************)
Catalog ==
    << [type |-> "Femto", radius |-> 1, max_users |-> 20, cost |-> 200],
       [type |-> "Pico", radius |-> 2, max_users |-> 100, cost |-> 800] >>

\* self.antenna_specs after the allowed-type filter of __init__.  The argument
\* allowed_antenna_types is <<>> for None and <<l>> for the list l; the test
\* `if allowed_antenna_types:` is false for None and for the empty list.
FilterSpecs(allowed) ==
    IF allowed # <<>> /\ allowed[1] # <<>>
    THEN SelectSeq(Catalog,
                   LAMBDA s : \E i \in 1..Len(allowed[1]) : allowed[1][i] = s.type)
    ELSE Catalog

(***************************************************************************)
(* Generic helpers                                                         *)
(***************************************************************************)
Range(s) == {s[i] : i \in 1..Len(s)}

RECURSIVE TotalCost(_)
TotalCost(sol) == IF sol = <<>> THEN 0 ELSE Head(sol).cost + TotalCost(Tail(sol))

RECURSIVE TotalCapacity(_)
TotalCapacity(sol) ==
    IF sol = <<>> THEN 0 ELSE Head(sol).max_users + TotalCapacity(Tail(sol))

RemoveAt(s, i) == SubSeq(s, 1, i - 1) \o SubSeq(s, i + 1, Len(s))

Min2(a, b) == IF a < b THEN a ELSE b
Max2(a, b) == IF a > b THEN a ELSE b

\* a percentage n/d*100 kept exact as the pair <<n*100, d>>; 0 when d = 0
Pct(n, d) == IF d > 0 THEN <<n * 100, d>> ELSE <<0, 1>>

(***************************************************************************)
(* State                                                                   *)
(***************************************************************************)
VARIABLES
    rng,            \* state of the process-wide random generator
    objects,        \* the algorithm instances sharing it
    oracle,         \* what the generator has been seen to draw
    running,        \* the instance whose optimize() is running, or 0
    others,         \* instances of other drivers constructed so far
    alg,            \* which driver this run is
    inst,           \* the constructor arguments (problem instance and parameters)
    pc,             \* position in optimize(): "start", a loop label, "done", "raised"
    result,         \* the dict optimize() returns (meaningful when pc = "done")
    \* GreedyAlgorithm fields and optimize() locals
    placed_antennas, covered_cells, covered_houses, iteration,
    \* hill climbing / simulated annealing / tabu / VNS locals
    current_solution, current_energy, best_solution, best_energy,
    temperature, inner, iterations_since_improvement, tabu_list, k,
    \* GeneticAlgorithm.optimize() locals
    population, selected, next_generation, generation, best_fitness,
    \* what an observer of the run has seen so far
    events,             \* the events generate_events() has yielded, in order
    shake_steps,        \* shake-then-polish steps VNS has performed
    within_budget_seen, \* some current solution of the run cost at most the budget
    \* objects and calls outside the six drivers
    sys,                \* the AntennaPlacementSystem object
    call                \* the frame of a method call: arguments, locals, return value

\* no AntennaPlacementSystem constructed, no call in progress
NoSystem == [zones |-> <<>>]
NoCall == [name |-> "none"]

runVars == <<alg, inst, pc, result>>
greedyVars == <<placed_antennas, covered_cells, covered_houses>>
lsVars == <<current_solution, current_energy, best_solution, best_energy,
            temperature, inner, iterations_since_improvement, tabu_list, k>>
gaVars == <<population, selected, next_generation, generation, best_fitness>>
seedVars == <<rng, objects, oracle, running, others>>
driverVars == <<runVars, greedyVars, iteration, lsVars, gaVars>>
histVars == <<events, shake_steps, within_budget_seen>>
callVars == <<sys, call>>
vars == <<driverVars, seedVars, histVars, callVars>>

(***************************************************************************)
(* Grid and coverage geometry (identical in every driver)                  *)
(***************************************************************************)
HouseSet(i) == Range(i.houses)                         \* self.houses = set(houses)
total_users(i) == Len(i.houses) * USERS_PER_HOUSE      \* len(houses) * USERS_PER_HOUSE
antenna_specs(i) == FilterSpecs(i.allowed)
Cells(i) == (0..(i.width - 1)) \X (0..(i.height - 1))

InDisc(dx, dy, radius) == dx * dx + dy * dy <= radius * radius

\* get_coverage_area: the in-bounds points of the disc, split in houses / cells
CoveragePoints(i, x, y, radius) ==
    {p \in Cells(i) : InDisc(p[1] - x, p[2] - y, radius)}
get_coverage_area(i, x, y, radius) ==
    [cells |-> CoveragePoints(i, x, y, radius) \ HouseSet(i),
     houses |-> CoveragePoints(i, x, y, radius) \cap HouseSet(i)]

\* is_valid_position: inside the grid and not on a house
is_valid_position(i, x, y) ==
    /\ 0 <= x /\ x < i.width
    /\ 0 <= y /\ y < i.height
    /\ <<x, y>> \notin HouseSet(i)

\* antenna_covers_houses: some house (of the set, in bounds or not) within radius
antenna_covers_houses(i, x, y, radius) ==
    \E h \in HouseSet(i) : InDisc(x - h[1], y - h[2], radius)

Positions(sol) == {<<sol[j].x, sol[j].y>> : j \in 1..Len(sol)}

\* union of the coverage of a placement
RECURSIVE CoveredHouses(_, _)
CoveredHouses(i, sol) ==
    IF sol = <<>> THEN {}
    ELSE get_coverage_area(i, Head(sol).x, Head(sol).y, Head(sol).radius).houses
         \cup CoveredHouses(i, Tail(sol))
RECURSIVE CoveredCells(_, _)
CoveredCells(i, sol) ==
    IF sol = <<>> THEN {}
    ELSE get_coverage_area(i, Head(sol).x, Head(sol).y, Head(sol).radius).cells
         \cup CoveredCells(i, Tail(sol))

(***************************************************************************)
(* Result dictionaries                                                     *)
(***************************************************************************)
NoResult == [antennas |-> <<>>, users_covered |-> 0, total_users |-> 0,
             user_coverage_percentage |-> <<0, 1>>, total_cost |-> 0,
             coverage_percentage |-> <<0, 1>>]

(***************************************************************************)
(* GreedyAlgorithm                                                         *)
(***************************************************************************)
GreedyAntenna(spec, x, y) ==
    [x |-> x, y |-> y, type |-> spec.type, radius |-> spec.radius,
     max_users |-> spec.max_users, cost |-> spec.cost]

\* count_new_coverage(...)[1]: users of the houses newly covered from (x, y)
count_new_users(i, ch, x, y, radius) ==
    Cardinality(get_coverage_area(i, x, y, radius).houses \ ch) * USERS_PER_HOUSE

GreedyCandidatesMutOnHouse(i, placed, ch, need_capacity_only) ==
    {c \in (1..Len(antenna_specs(i))) \X (0..(i.width - 1)) \X (0..(i.height - 1)) :
        /\ <<c[2], c[3]>> \notin Positions(placed)
        /\ \/ need_capacity_only
           \/ count_new_users(i, ch, c[2], c[3], antenna_specs(i)[c[1]].radius) > 0}

\* the (type index, x, y) triples the scan of find_best_antenna_placement keeps
GreedyCandidates(i, placed, ch, need_capacity_only) ==
    {c \in (1..Len(antenna_specs(i))) \X (0..(i.width - 1)) \X (0..(i.height - 1)) :
        /\ is_valid_position(i, c[2], c[3])
        /\ <<c[2], c[3]>> \notin Positions(placed)
        /\ \/ need_capacity_only
           \/ count_new_users(i, ch, c[2], c[3], antenna_specs(i)[c[1]].radius) > 0}

\* cost_efficiency as the fraction <<numerator, denominator>>
CostEfficiency(i, ch, c) ==
    LET spec == antenna_specs(i)[c[1]]
        nu == count_new_users(i, ch, c[2], c[3], spec.radius)
    IN  IF nu > 0 THEN <<spec.cost, nu>> ELSE <<spec.cost, spec.max_users>>

FracLess(a, b) == a[1] * b[2] < b[1] * a[2]

CapacityWaste(i, placed, users_covered, need_capacity_only, c) ==
    IF need_capacity_only
    THEN TotalCapacity(placed) + antenna_specs(i)[c[1]].max_users - users_covered
    ELSE 0

\* is_better of candidate a over the best so far b
IsBetter(i, placed, ch, users_covered, need_capacity_only, a, b) ==
    LET wa == CapacityWaste(i, placed, users_covered, need_capacity_only, a)
        wb == CapacityWaste(i, placed, users_covered, need_capacity_only, b)
    IN  IF need_capacity_only
        THEN \/ wa < wb
             \/ wa = wb /\ FracLess(CostEfficiency(i, ch, a), CostEfficiency(i, ch, b))
        ELSE FracLess(CostEfficiency(i, ch, a), CostEfficiency(i, ch, b))

\* position of a candidate in the scan: types, then x, then y
ScanRank(i, c) == ((c[1] - 1) * i.width + c[2]) * i.height + c[3]

\* find_best_antenna_placement: the first candidate of the scan that no
\* earlier or later candidate strictly beats; found = FALSE is Python's None
find_best_antenna_placement(i, placed, ch, need_capacity_only, users_covered) ==
    LET cands == GreedyCandidates(i, placed, ch, need_capacity_only)
        B(a, b) == IsBetter(i, placed, ch, users_covered, need_capacity_only, a, b)
    IN  IF cands = {} THEN [found |-> FALSE, c |-> <<0, 0, 0>>]
        ELSE [found |-> TRUE,
              c |-> CHOOSE c \in cands : \A d \in cands \ {c} :
                        \/ B(c, d)
                        \/ ~B(d, c) /\ ScanRank(i, c) < ScanRank(i, d)]

GreedyUsersCovered == Cardinality(covered_houses) * USERS_PER_HOUSE

\* users_covered >= (target_coverage / 100) * total_users
CoverageMet(i, users_covered) ==
    users_covered * 100 >= i.target_coverage * total_users(i)

\* the break before the search for a placement (lines 265-282)
GreedyStopBefore(i, placed, users_covered) ==
    IF i.optimization_mode = "coverage"
    THEN CoverageMet(i, users_covered) /\ TotalCapacity(placed) >= users_covered
    ELSE \/ Truthy(i.max_budget) /\ TotalCost(placed) >= i.max_budget
         \/ Truthy(i.max_antennas) /\ Len(placed) >= i.max_antennas

GreedyNeedCapacityOnly(i, placed, users_covered) ==
    /\ i.optimization_mode = "coverage"
    /\ CoverageMet(i, users_covered)
    /\ TotalCapacity(placed) < users_covered

\* the affordability checks of budget mode (lines 307-318)
GreedyBudgetBreakMutNone(i, placed, spec) == FALSE
GreedyBudgetBreak(i, placed, spec) ==
    /\ i.optimization_mode = "budget"
    /\ \/ Truthy(i.max_budget) /\ TotalCost(placed) + spec.cost > i.max_budget
       \/ Truthy(i.max_antennas) /\ Len(placed) + 1 > i.max_antennas

GreedyBest ==
    find_best_antenna_placement(inst, placed_antennas, covered_houses,
        GreedyNeedCapacityOnly(inst, placed_antennas, GreedyUsersCovered),
        GreedyUsersCovered)

\* TRUE when the current loop iteration places an antenna
GreedyWillPlace ==
    /\ iteration < inst.width * inst.height
    /\ ~GreedyStopBefore(inst, placed_antennas, GreedyUsersCovered)
    /\ GreedyBest.found
    /\ ~GreedyBudgetBreak(inst, placed_antennas, antenna_specs(inst)[GreedyBest.c[1]])

GreedyResult ==
    [antennas |-> placed_antennas,
     users_covered |-> GreedyUsersCovered,
     total_users |-> total_users(inst),
     user_coverage_percentage |-> Pct(GreedyUsersCovered, total_users(inst)),
     total_cost |-> TotalCost(placed_antennas),
     coverage_percentage |->
        Pct(Cardinality(covered_cells),
            inst.width * inst.height - Cardinality(HouseSet(inst)))]

GreedyPlaceMutNoCount ==
    /\ alg = "greedy" /\ pc = "loop"
    /\ GreedyWillPlace
    /\ LET c == GreedyBest.c
           spec == antenna_specs(inst)[c[1]]
           cov == get_coverage_area(inst, c[2], c[3], spec.radius)
       IN  /\ placed_antennas' = Append(placed_antennas, GreedyAntenna(spec, c[2], c[3]))
           /\ covered_cells' = covered_cells \cup cov.cells
           /\ covered_houses' = covered_houses \cup cov.houses
    /\ UNCHANGED <<callVars, seedVars, events, shake_steps, within_budget_seen, runVars, iteration,
                   lsVars, gaVars>>

\* one iteration of the while loop that appends an antenna (lines 255-355)
GreedyPlace ==
    /\ alg = "greedy" /\ pc = "loop"
    /\ GreedyWillPlace
    /\ LET c == GreedyBest.c
           spec == antenna_specs(inst)[c[1]]
           cov == get_coverage_area(inst, c[2], c[3], spec.radius)
       IN  /\ placed_antennas' = Append(placed_antennas, GreedyAntenna(spec, c[2], c[3]))
           /\ covered_cells' = covered_cells \cup cov.cells
           /\ covered_houses' = covered_houses \cup cov.houses
    /\ iteration' = iteration + 1
    /\ UNCHANGED <<callVars, seedVars, events, shake_steps, within_budget_seen, runVars, lsVars, gaVars>>

\* the loop ends (cap reached or a break) and optimize() returns (lines 357-408)
GreedyReturn ==
    /\ alg = "greedy" /\ pc = "loop"
    /\ ~GreedyWillPlace
    /\ iteration' = IF iteration < inst.width * inst.height THEN iteration + 1 ELSE iteration
    /\ pc' = "done"
    /\ result' = GreedyResult
    /\ UNCHANGED <<callVars, seedVars, events, shake_steps, within_budget_seen, alg, inst, greedyVars,
                   lsVars, gaVars>>

(***************************************************************************)
(* Local search family: shared pieces of simulated annealing, tabu search, *)
(* hill climbing and VNS                                                   *)
(***************************************************************************)
Antenna(spec, x, y) ==
    [x |-> x, y |-> y, type |-> spec.type, radius |-> spec.radius, cost |-> spec.cost]

RECURSIVE UsersMutPerAntenna(_, _)
UsersMutPerAntenna(i, sol) ==
    IF sol = <<>> THEN 0
    ELSE Cardinality(get_coverage_area(i, Head(sol).x, Head(sol).y, Head(sol).radius).houses)
             * USERS_PER_HOUSE
         + UsersMutPerAntenna(i, Tail(sol))

Users(i, sol) == Cardinality(CoveredHouses(i, sol)) * USERS_PER_HOUSE

\* the budget test of calculate_solution_metrics (line 184), negated
WithinBudget(i, sol) == i.max_budget = None \/ TotalCost(sol) <= i.max_budget

\* the factor that makes every energy of a run an integer
BudgetScale(i) == IF Truthy(i.max_budget) THEN i.max_budget ELSE 1

\* calculate_solution_metrics(...)[0] times divisor * BudgetScale
Energy(i, sol, divisor) ==
    LET cost == TotalCost(sol)
        uncovered == IF total_users(i) > 0 THEN total_users(i) - Users(i, sol) ELSE 0
    IN  uncovered * UNCOVERED_USER_PENALTY * divisor * BudgetScale(i)
        + cost * BudgetScale(i)
        + (IF i.max_budget # None /\ cost > i.max_budget
           THEN BUDGET_PENALTY * (cost - i.max_budget) * divisor ELSE 0)


\* can_add of generate_neighbor / generate_neighbors / get_best_neighbor / shake
can_add_mut_always(i, sol) == TRUE
can_add(i, sol) == i.max_antennas = None \/ Len(sol) < i.max_antennas

\* max_initial of generate_initial_solution
max_initial(i, cap) == Min2(cap, IF Truthy(i.max_antennas) THEN i.max_antennas ELSE cap)

\* remove_useless_antennas: keep, in order, the antennas covering a house
remove_useless_antennas(i, sol) ==
    SelectSeq(sol, LAMBDA a : antenna_covers_houses(i, a.x, a.y, a.radius))

\* the returned dict of the four local search drivers
LocalSearchResultMutUncleaned(i, sol) ==
    LET kept == remove_useless_antennas(i, sol)
        cells == Cardinality(CoveredCells(i, sol)) + Cardinality(CoveredHouses(i, sol))
    IN  [antennas |-> kept,
         users_covered |-> IF sol # <<>> THEN Users(i, sol) ELSE 0,
         total_users |-> total_users(i),
         user_coverage_percentage |->
            Pct(IF sol # <<>> THEN Users(i, sol) ELSE 0, total_users(i)),
         total_cost |-> IF sol # <<>> THEN TotalCost(sol) ELSE 0,
         coverage_percentage |->
            Pct(IF sol # <<>> THEN cells ELSE 0, i.width * i.height)]

LocalSearchResult(i, sol) ==
    LET kept == remove_useless_antennas(i, sol)
        cells == Cardinality(CoveredCells(i, kept)) + Cardinality(CoveredHouses(i, kept))
    IN  [antennas |-> kept,
         users_covered |-> IF kept # <<>> THEN Users(i, kept) ELSE 0,
         total_users |-> total_users(i),
         user_coverage_percentage |->
            Pct(IF kept # <<>> THEN Users(i, kept) ELSE 0, total_users(i)),
         total_cost |-> IF kept # <<>> THEN TotalCost(kept) ELSE 0,
         coverage_percentage |->
            Pct(IF kept # <<>> THEN cells ELSE 0, i.width * i.height)]

(***************************************************************************)
(* generate_initial_solution of simulated annealing and tabu search        *)
(***************************************************************************)
\* candidates of one ring around the target house
RingCandidates(i, h, sr, placed) ==
    {p \in Cells(i) :
        /\ p[1] - h[1] \in (0 - sr)..sr /\ p[2] - h[2] \in (0 - sr)..sr
        /\ sr * sr <= (p[1] - h[1]) * (p[1] - h[1]) + (p[2] - h[2]) * (p[2] - h[2])
        /\ (p[1] - h[1]) * (p[1] - h[1]) + (p[2] - h[2]) * (p[2] - h[2])
             <= (sr + 1) * (sr + 1)
        /\ is_valid_position(i, p[1], p[2])
        /\ p \notin placed}

\* range(0, min(spec.radius + 5, max(width, height)))
SearchRadii(i, spec) == 0..(Min2(spec.radius + 5, Max2(i.width, i.height)) - 1)

\* the candidates of the first non-empty ring ({} when every ring is empty)
FirstRing(i, h, spec, placed) ==
    LET hit == {sr \in SearchRadii(i, spec) : RingCandidates(i, h, sr, placed) # {}}
    IN  IF hit = {} THEN {}
        ELSE RingCandidates(i, h, CHOOSE sr \in hit : \A o \in hit : sr <= o, placed)

\* antennas one attempt of the while loop can append to s
RingAttempts(i, s) ==
    {Antenna(antenna_specs(i)[t], p[1], p[2]) :
        <<t, p>> \in {tp \in (1..Len(antenna_specs(i))) \X Cells(i) :
            \E h \in HouseSet(i) :
                tp[2] \in FirstRing(i, h, antenna_specs(i)[tp[1]], Positions(s))}}

\* TRUE when some attempt (a house and a type) appends nothing
RingAttemptCanFail(i, s) ==
    \E h \in HouseSet(i) : \E t \in 1..Len(antenna_specs(i)) :
        FirstRing(i, h, antenna_specs(i)[t], Positions(s)) = {}

\* every list the while loop can end with, starting from the partial list s
RECURSIVE RingInitialFrom(_, _, _)
RingInitialFrom(i, s, cap) ==
    IF Len(s) >= max_initial(i, cap) THEN {s}
    ELSE (IF RingAttemptCanFail(i, s) THEN {s} ELSE {})
         \cup UNION {RingInitialFrom(i, Append(s, a), cap) : a \in RingAttempts(i, s)}

RingInitialSolutions(i, cap) ==
    IF HouseSet(i) = {} THEN {<<>>} ELSE RingInitialFrom(i, <<>>, cap)

(***************************************************************************)
(* generate_initial_solution of hill climbing and VNS                      *)
(***************************************************************************)
\* valid free cells of the square of half-width sr around the house
SquareCandidates(i, h, sr, placed) ==
    {p \in Cells(i) :
        /\ p[1] - h[1] \in (0 - sr)..sr /\ p[2] - h[2] \in (0 - sr)..sr
        /\ is_valid_position(i, p[1], p[2])
        /\ p \notin placed}

\* the first cell of the dx, dy scan of the first square that has one
FirstSquareCell(i, h, spec, placed) ==
    LET hit == {sr \in 0..(spec.radius + 4) : SquareCandidates(i, h, sr, placed) # {}}
        sr0 == CHOOSE sr \in hit : \A o \in hit : sr <= o
        c == SquareCandidates(i, h, sr0, placed)
    IN  IF hit = {} THEN {}
        ELSE {CHOOSE p \in c : \A q \in c :
                 p[1] < q[1] \/ (p[1] = q[1] /\ p[2] <= q[2])}

\* every list the for loop over range(max_initial) can build in n more rounds
RECURSIVE SquareInitialFrom(_, _, _)
SquareInitialFrom(i, s, n) ==
    IF n = 0 THEN {s}
    ELSE UNION {
        LET cell == FirstSquareCell(i, ht[1], antenna_specs(i)[ht[2]], Positions(s))
        IN  IF cell = {} THEN SquareInitialFrom(i, s, n - 1)
            ELSE SquareInitialFrom(i,
                    Append(s, Antenna(antenna_specs(i)[ht[2]],
                                      (CHOOSE p \in cell : TRUE)[1],
                                      (CHOOSE p \in cell : TRUE)[2])),
                    n - 1)
        : ht \in HouseSet(i) \X (1..Len(antenna_specs(i)))}

SquareInitialSolutions(i) ==
    IF HouseSet(i) = {} THEN {<<>>}
    ELSE SquareInitialFrom(i, <<>>, max_initial(i, LS_MAX_INITIAL_ANTENNAS))

(***************************************************************************)
(* Single perturbations (the add / remove / move / change_type operations  *)
(* shared, with small differences, by the four local search drivers)       *)
(***************************************************************************)
\* budget pre-check of an add: SA tests "is not None", the others truthiness
OverBudget(i, a, sol, spec) ==
    IF a = "sa"
    THEN i.max_budget # None /\ TotalCost(sol) + spec.cost > i.max_budget
    ELSE Truthy(i.max_budget) /\ TotalCost(sol) + spec.cost > i.max_budget

\* positions a random draw can return: randint(0, width-1), randint(0, height-1)
\* accepted as the place of a new antenna
AddCellOk(i, sol, p) == is_valid_position(i, p[1], p[2]) /\ p \notin Positions(sol)

\* the antennas an add can append to sol
AddChoices(i, a, sol) ==
    {Antenna(antenna_specs(i)[tp[1]], tp[2][1], tp[2][2]) :
        tp \in {c \in (1..Len(antenna_specs(i))) \X Cells(i) :
            /\ AddCellOk(i, sol, c[2])
            /\ ~OverBudget(i, a, sol, antenna_specs(i)[c[1]])
            /\ antenna_covers_houses(i, c[2][1], c[2][2], antenna_specs(i)[c[1]].radius)}}

\* the cells a move of antenna idx accepts
MoveCellOkMutOnHouse(i, sol, idx, p) ==
    antenna_covers_houses(i, p[1], p[2], sol[idx].radius)
MoveCellOk(i, sol, idx, p) ==
    /\ is_valid_position(i, p[1], p[2])
    /\ antenna_covers_houses(i, p[1], p[2], sol[idx].radius)
MoveCells(i, sol, idx) == {p \in Cells(i) : MoveCellOk(i, sol, idx, p)}

Moved(sol, idx, p) == [sol EXCEPT ![idx].x = p[1], ![idx].y = p[2]]
Retyped(sol, idx, spec) ==
    [sol EXCEPT ![idx].type = spec.type, ![idx].radius = spec.radius,
                ![idx].cost = spec.cost]

(***************************************************************************)
(* SimulatedAnnealingAlgorithm                                             *)
(***************************************************************************)
\* generate_neighbor: every list one call can return
generate_neighbor(i, sol) ==
    IF sol = <<>>
    THEN {SubSeq(s, 1, Min2(1, Len(s))) : s \in RingInitialSolutions(i, SA_MAX_INITIAL_ANTENNAS)}
    ELSE \* "add": an accepted draw within the 50 tries, or none (sol unchanged);
         \* also every operation whose guard fails leaves sol unchanged
         {sol}
         \cup (IF can_add(i, sol)
               THEN {Append(sol, n) : n \in AddChoices(i, "sa", sol)} ELSE {})
         \* "remove"
         \cup (IF Len(sol) > 1 THEN {RemoveAt(sol, idx) : idx \in 1..Len(sol)} ELSE {})
         \* "move": no test against the positions of the other antennas
         \cup {Moved(sol, ip[1], ip[2]) :
                 ip \in {c \in (1..Len(sol)) \X Cells(i) : c[2] \in MoveCells(i, sol, c[1])}}
         \* "change_type"
         \cup {Retyped(sol, it[1], antenna_specs(i)[it[2]]) :
                 it \in (1..Len(sol)) \X (1..Len(antenna_specs(i)))}

\* temperature > min_temperature, temperature kept as the fraction <<n, d>>
TempAbove(t, m) == t[1] > m * t[2]
Cool(t, rate) == <<t[1] * rate[1], t[2] * rate[2]>>

\* acceptance_probability(...) > random.random() can come out TRUE / FALSE
CanAccept(cur, new, t) == new < cur \/ t[1] > 0
CanReject(cur, new, t) == new > cur

\* the local variables of one optimize() call of simulated annealing
SAState(pos, cur, cure, best, beste, temp, inn, isi, it) ==
    [pc |-> pos, current_solution |-> cur, current_energy |-> cure,
     best_solution |-> best, best_energy |-> beste, temperature |-> temp,
     inner |-> inn, iterations_since_improvement |-> isi, iteration |-> it]

\* the states optimize() can be in when it enters the while loop (lines 466-490)
SAStartStates(i) ==
    {SAState("loop", s, Energy(i, s, SA_COST_DIVISOR), s, Energy(i, s, SA_COST_DIVISOR),
             <<i.initial_temperature, 1>>, 0, 0, 0) :
        s \in RingInitialSolutions(i, SA_MAX_INITIAL_ANTENNAS)}

\* the end of one inner iteration: the end of the for loop is followed by the
\* early stopping check and the cooling step
SAAdvance(i, st) ==
    IF st.inner + 1 < i.iterations_per_temp
    THEN [st EXCEPT !.inner = st.inner + 1, !.iteration = st.iteration + 1]
    ELSE IF i.early_stopping_iterations # None
            /\ st.iterations_since_improvement >= i.early_stopping_iterations
         THEN [st EXCEPT !.inner = 0, !.iteration = st.iteration + 1, !.pc = "exit"]
         ELSE [st EXCEPT !.inner = 0, !.iteration = st.iteration + 1,
                         !.temperature = Cool(st.temperature, i.cooling_rate)]

SAAcceptStatesMutKeepBest(i, st) ==
    {SAAdvance(i, [st EXCEPT !.current_solution = n,
                             !.current_energy = Energy(i, n, SA_COST_DIVISOR),
                             !.iterations_since_improvement =
                                 st.iterations_since_improvement + 1]) :
     n \in {m \in generate_neighbor(i, st.current_solution) :
              CanAccept(st.current_energy, Energy(i, m, SA_COST_DIVISOR), st.temperature)}}

\* the states after one inner iteration whose neighbor is accepted
SAAcceptStates(i, st) ==
    {LET e == Energy(i, n, SA_COST_DIVISOR) IN
     SAAdvance(i,
        IF e < st.best_energy
        THEN [st EXCEPT !.current_solution = n, !.current_energy = e,
                        !.best_solution = n, !.best_energy = e,
                        !.iterations_since_improvement = 0]
        ELSE [st EXCEPT !.current_solution = n, !.current_energy = e,
                        !.iterations_since_improvement =
                            st.iterations_since_improvement + 1]) :
     n \in {m \in generate_neighbor(i, st.current_solution) :
              CanAccept(st.current_energy, Energy(i, m, SA_COST_DIVISOR), st.temperature)}}

\* the state after one inner iteration whose neighbor is rejected
SARejectStates(i, st) ==
    IF \E n \in generate_neighbor(i, st.current_solution) :
         CanReject(st.current_energy, Energy(i, n, SA_COST_DIVISOR), st.temperature)
    THEN {SAAdvance(i, [st EXCEPT !.iterations_since_improvement =
                                     st.iterations_since_improvement + 1])}
    ELSE {}

SALoopRuns(i, st) == st.pc = "loop" /\ TempAbove(st.temperature, i.min_temperature)
SALoopEnded(i, st) ==
    st.pc = "exit" \/ (st.pc = "loop" /\ ~TempAbove(st.temperature, i.min_temperature))

\* the variables of the run seen as the locals of optimize()
SALocals ==
    SAState(pc, current_solution, current_energy, best_solution, best_energy,
            temperature, inner, iterations_since_improvement, iteration)

SASetLocals(st) ==
    /\ pc' = st.pc
    /\ current_solution' = st.current_solution
    /\ current_energy' = st.current_energy
    /\ best_solution' = st.best_solution
    /\ best_energy' = st.best_energy
    /\ temperature' = st.temperature
    /\ inner' = st.inner
    /\ iterations_since_improvement' = st.iterations_since_improvement
    /\ iteration' = st.iteration

SAStart ==
    /\ alg = "sa" /\ pc = "start"
    /\ \E st \in SAStartStates(inst) : SASetLocals(st)
    /\ UNCHANGED <<callVars, seedVars, events, shake_steps, alg, inst, result, greedyVars, tabu_list, k,
                   gaVars>>
    /\ within_budget_seen' = (within_budget_seen \/ WithinBudget(inst, current_solution'))

\* generate_initial_solution with houses and an empty self.antenna_specs:
\* random.choice(antenna_types) raises IndexError (line 271)
SARaise ==
    /\ alg = "sa" /\ pc = "start"
    /\ HouseSet(inst) # {}
    /\ antenna_specs(inst) = <<>>
    /\ pc' = "raised"
    /\ UNCHANGED <<callVars, seedVars, histVars, alg, inst, result, greedyVars, iteration, lsVars,
                   gaVars>>

\* one inner iteration whose neighbor is accepted (lines 499-530)
SAAccept ==
    /\ alg = "sa"
    /\ SALoopRuns(inst, SALocals)
    /\ \E st \in SAAcceptStates(inst, SALocals) : SASetLocals(st)
    /\ UNCHANGED <<callVars, seedVars, events, shake_steps, alg, inst, result, greedyVars, tabu_list, k,
                   gaVars>>
    /\ within_budget_seen' = (within_budget_seen \/ WithinBudget(inst, current_solution'))

\* one inner iteration whose neighbor is rejected
SAReject ==
    /\ alg = "sa"
    /\ SALoopRuns(inst, SALocals)
    /\ \E st \in SARejectStates(inst, SALocals) : SASetLocals(st)
    /\ UNCHANGED <<callVars, seedVars, events, shake_steps, alg, inst, result, greedyVars, tabu_list, k,
                   gaVars>>
    /\ within_budget_seen' = (within_budget_seen \/ WithinBudget(inst, current_solution'))

\* the loop has ended: cleanup, final metrics, return (lines 558-595)
SAReturn ==
    /\ alg = "sa"
    /\ SALoopEnded(inst, SALocals)
    /\ pc' = "done"
    /\ result' = LocalSearchResult(inst, best_solution)
    /\ UNCHANGED <<callVars, seedVars, events, shake_steps, within_budget_seen, alg, inst, greedyVars,
                   iteration, lsVars, gaVars>>

(***************************************************************************)
(* Neighborhoods of tabu search (generate_neighbors) and hill climbing     *)
(* (get_best_neighbor): both build, in the same order, the add neighbors   *)
(* of the sampled free cells, every removal, the moves to the sampled      *)
(* cells and every change of type.  addCells and moveCells[idx] are the    *)
(* accepted cells among the random draws of one call.                      *)
(***************************************************************************)
Nb(cat, idx, pos, t, sol) == [cat |-> cat, idx |-> idx, pos |-> pos, t |-> t, sol |-> sol]

SampledNeighbors(i, a, sol, addCells, moveCells) ==
    (IF can_add(i, sol)
     THEN {Nb(1, 0, c[2], c[1], Append(sol, Antenna(antenna_specs(i)[c[1]], c[2][1], c[2][2]))) :
             c \in {d \in (1..Len(antenna_specs(i))) \X addCells :
                     /\ ~OverBudget(i, a, sol, antenna_specs(i)[d[1]])
                     /\ antenna_covers_houses(i, d[2][1], d[2][2],
                                              antenna_specs(i)[d[1]].radius)}}
     ELSE {})
    \cup (IF Len(sol) > 1
          THEN {Nb(2, idx, <<0, 0>>, 0, RemoveAt(sol, idx)) : idx \in 1..Len(sol)}
          ELSE {})
    \cup {Nb(3, c[1], c[2], 0, Moved(sol, c[1], c[2])) :
            c \in {d \in (1..Len(sol)) \X Cells(i) : d[2] \in moveCells[d[1]]}}
    \cup {Nb(4, c[1], <<0, 0>>, c[2], Retyped(sol, c[1], antenna_specs(i)[c[2]])) :
            c \in {d \in (1..Len(sol)) \X (1..Len(antenna_specs(i))) :
                     antenna_specs(i)[d[2]].type # sol[d[1]].type}}

\* n is generated before m whatever the order of the draws
GeneratedBefore(n, m) ==
    \/ n.cat < m.cat
    \/ /\ n.cat = m.cat
       /\ \/ n.cat = 1 /\ n.pos = m.pos /\ n.t < m.t
          \/ n.cat \in {2, 3} /\ n.idx < m.idx
          \/ n.cat = 4 /\ (n.idx < m.idx \/ (n.idx = m.idx /\ n.t < m.t))

\* the neighbors that can come first among those of least energy
FirstOfLeastEnergy(i, nbs, divisor) ==
    LET least == {n \in nbs : \A m \in nbs :
                    Energy(i, n.sol, divisor) <= Energy(i, m.sol, divisor)}
    IN  {n \in least : \A m \in least : ~GeneratedBefore(m, n)}

\* the sets of accepted cells the draws of one call can produce
AddSamples(i, sol, tries) ==
    {s \in SUBSET {p \in Cells(i) : AddCellOk(i, sol, p)} : Cardinality(s) <= tries}
MoveSamples(i, sol, tries) ==
    {f \in [1..Len(sol) -> SUBSET Cells(i)] :
        \A idx \in 1..Len(sol) :
            /\ f[idx] \subseteq MoveCells(i, sol, idx)
            /\ Cardinality(f[idx]) <= tries}

(***************************************************************************)
(* TabuSearchAlgorithm                                                     *)
(***************************************************************************)
\* order of the type names (str comparison of AntennaType.value)
TypeRank(t) ==
    CASE t = "Femto" -> 1 [] t = "Macro" -> 2 [] t = "Micro" -> 3 [] t = "Pico" -> 4

TripleLess(a, b) ==
    \/ a[1] < b[1]
    \/ a[1] = b[1] /\ a[2] < b[2]
    \/ a[1] = b[1] /\ a[2] = b[2] /\ TypeRank(a[3]) < TypeRank(b[3])

RECURSIVE InsertSorted(_, _)
InsertSorted(s, e) ==
    IF s = <<>> THEN <<e>>
    ELSE IF TripleLess(e, Head(s)) THEN <<e>> \o s
         ELSE <<Head(s)>> \o InsertSorted(Tail(s), e)

RECURSIVE SortTriples(_)
SortTriples(s) == IF s = <<>> THEN <<>> ELSE InsertSorted(SortTriples(Tail(s)), Head(s))

\* solution_to_tuple: the sorted tuple of (x, y, type name)
solution_to_tuple(sol) ==
    SortTriples([j \in 1..Len(sol) |-> <<sol[j].x, sol[j].y, sol[j].type>>])

TabuAdmissibleMutNoFilter(i, nbs, tabu, best) == nbs

\* the neighbors that pass the tabu filter or the aspiration criterion
TabuAdmissible(i, nbs, tabu, best) ==
    {n \in nbs : \/ solution_to_tuple(n.sol) \notin Range(tabu)
                 \/ Energy(i, n.sol, LS_COST_DIVISOR) < best}

\* every neighbor set one call of generate_neighbors can return
TabuNeighborSets(i, sol) ==
    IF sol = <<>>
    THEN {{Nb(0, 0, <<0, 0>>, 0, SubSeq(s, 1, Min2(1, Len(s))))} :
            s \in RingInitialSolutions(i, LS_MAX_INITIAL_ANTENNAS)}
    ELSE {SampledNeighbors(i, "tabu", sol, ac, mc) :
            ac \in AddSamples(i, sol, TABU_ADD_SAMPLES),
            mc \in MoveSamples(i, sol, LS_MOVE_SAMPLES)}

TabuPushMutNoEvict(tabu, sol, size) == Append(tabu, solution_to_tuple(sol))

TabuPush(tabu, sol, size) ==
    LET t == Append(tabu, solution_to_tuple(sol))
    IN  IF Len(t) > size THEN Tail(t) ELSE t

TabuStart ==
    /\ alg = "tabu" /\ pc = "start"
    /\ \E s \in RingInitialSolutions(inst, LS_MAX_INITIAL_ANTENNAS) :
        /\ current_solution' = s
        /\ current_energy' = Energy(inst, s, LS_COST_DIVISOR)
        /\ best_solution' = s
        /\ best_energy' = Energy(inst, s, LS_COST_DIVISOR)
    /\ tabu_list' = <<>>
    /\ iteration' = 0
    /\ pc' = "loop"
    /\ UNCHANGED <<callVars, seedVars, events, shake_steps, alg, inst, result, greedyVars, temperature, inner,
                   iterations_since_improvement, k, gaVars>>
    /\ within_budget_seen' = (within_budget_seen \/ WithinBudget(inst, current_solution'))

\* one iteration that moves to the best admissible neighbor (lines 299-336)
TabuIter ==
    /\ alg = "tabu" /\ pc = "loop"
    /\ iteration < inst.iterations
    /\ \E nbs \in TabuNeighborSets(inst, current_solution) :
        \E n \in FirstOfLeastEnergy(inst,
                    TabuAdmissible(inst, nbs, tabu_list, best_energy), LS_COST_DIVISOR) :
            LET e == Energy(inst, n.sol, LS_COST_DIVISOR) IN
            /\ tabu_list' = TabuPush(tabu_list, current_solution, inst.tabu_size)
            /\ current_solution' = n.sol
            /\ current_energy' = e
            /\ IF e < best_energy
               THEN best_solution' = n.sol /\ best_energy' = e
               ELSE UNCHANGED <<best_solution, best_energy>>
    /\ iteration' = iteration + 1
    /\ UNCHANGED <<callVars, seedVars, events, shake_steps, alg, inst, pc, result, greedyVars,
                   temperature, inner,
                   iterations_since_improvement, k, gaVars>>
    /\ within_budget_seen' = (within_budget_seen \/ WithinBudget(inst, current_solution'))

\* the loop ends (range exhausted, or no admissible neighbor: break), cleanup, return
TabuReturn ==
    /\ alg = "tabu" /\ pc = "loop"
    /\ \/ iteration >= inst.iterations
       \/ \E nbs \in TabuNeighborSets(inst, current_solution) :
            TabuAdmissible(inst, nbs, tabu_list, best_energy) = {}
    /\ pc' = "done"
    /\ result' = LocalSearchResult(inst, best_solution)
    /\ UNCHANGED <<callVars, seedVars, events, shake_steps, within_budget_seen, alg, inst, greedyVars,
                   iteration, lsVars, gaVars>>

(***************************************************************************)
(* HillClimbingAlgorithm                                                   *)
(***************************************************************************)
\* every neighbor set one call of get_best_neighbor can evaluate
HCNeighborSets(i, sol) ==
    {SampledNeighbors(i, "hc", sol, ac, mc) :
        ac \in AddSamples(i, sol, HC_ADD_SAMPLES),
        mc \in MoveSamples(i, sol, LS_MOVE_SAMPLES)}

HCStart ==
    /\ alg = "hc" /\ pc = "start"
    /\ \E s \in SquareInitialSolutions(inst) :
        /\ current_solution' = s
        /\ current_energy' = Energy(inst, s, LS_COST_DIVISOR)
    /\ iteration' = 0
    /\ pc' = "loop"
    /\ UNCHANGED <<callVars, seedVars, events, shake_steps, alg, inst, result, greedyVars, best_solution,
                   best_energy,
                   temperature, inner, iterations_since_improvement, tabu_list, k,
                   gaVars>>
    /\ within_budget_seen' = (within_budget_seen \/ WithinBudget(inst, current_solution'))

HCClimbMutSideways ==
    /\ alg = "hc" /\ pc = "loop"
    /\ iteration < inst.max_iterations
    /\ \E nbs \in HCNeighborSets(inst, current_solution) :
        \E n \in FirstOfLeastEnergy(inst, nbs, LS_COST_DIVISOR) :
            /\ Energy(inst, n.sol, LS_COST_DIVISOR) <= current_energy
            /\ current_solution' = n.sol
            /\ current_energy' = Energy(inst, n.sol, LS_COST_DIVISOR)
    /\ iteration' = iteration + 1
    /\ UNCHANGED <<callVars, seedVars, events, shake_steps, alg, inst, pc, result, greedyVars,
                   best_solution, best_energy,
                   temperature, inner, iterations_since_improvement, tabu_list, k,
                   gaVars>>
    /\ within_budget_seen' = (within_budget_seen \/ WithinBudget(inst, current_solution'))

\* an iteration whose best neighbor is strictly better (lines 262-272)
HCClimb ==
    /\ alg = "hc" /\ pc = "loop"
    /\ iteration < inst.max_iterations
    /\ \E nbs \in HCNeighborSets(inst, current_solution) :
        \E n \in FirstOfLeastEnergy(inst, nbs, LS_COST_DIVISOR) :
            /\ Energy(inst, n.sol, LS_COST_DIVISOR) < current_energy
            /\ current_solution' = n.sol
            /\ current_energy' = Energy(inst, n.sol, LS_COST_DIVISOR)
    /\ iteration' = iteration + 1
    /\ UNCHANGED <<callVars, seedVars, events, shake_steps, alg, inst, pc, result, greedyVars,
                   best_solution, best_energy,
                   temperature, inner, iterations_since_improvement, tabu_list, k,
                   gaVars>>
    /\ within_budget_seen' = (within_budget_seen \/ WithinBudget(inst, current_solution'))

\* the loop ends (cap, no neighbor, or best neighbor not better), cleanup, return
HCReturn ==
    /\ alg = "hc" /\ pc = "loop"
    /\ \/ iteration >= inst.max_iterations
       \/ \E nbs \in HCNeighborSets(inst, current_solution) :
            \/ nbs = {}
            \/ \E n \in FirstOfLeastEnergy(inst, nbs, LS_COST_DIVISOR) :
                 Energy(inst, n.sol, LS_COST_DIVISOR) >= current_energy
    /\ iteration' = IF iteration < inst.max_iterations THEN iteration + 1 ELSE iteration
    /\ pc' = "done"
    /\ result' = LocalSearchResult(inst, current_solution)
    /\ UNCHANGED <<callVars, seedVars, events, shake_steps, within_budget_seen, alg, inst, greedyVars,
                   lsVars, gaVars>>

(***************************************************************************)
(* VNSAlgorithm                                                            *)
(***************************************************************************)
\* an objective is <<1, 0>> for float('inf') and <<0, v>> for the finite value
\* v / BudgetScale
Infinite == <<1, 0>>
ObjLess(a, b) == a[1] < b[1] \/ (a[1] = 0 /\ b[1] = 0 /\ a[2] < b[2])

calculate_objective(i, sol) ==
    IF sol = <<>> THEN Infinite
    ELSE LET cost == TotalCost(sol)
             uncovered == total_users(i) - Users(i, sol)
         IN  <<0, cost * BudgetScale(i)
                  + UNCOVERED_USER_PENALTY * LS_COST_DIVISOR * uncovered * BudgetScale(i)
                  + (IF Truthy(i.max_budget) /\ cost > i.max_budget
                     THEN VNS_BUDGET_PENALTY * (cost - i.max_budget) ELSE 0)>>

\* one round of shake on an empty list: the antenna of an accepted draw,
\* or nothing when each of the draws is rejected
ShakeEmptyChoices(i) ==
    {Antenna(antenna_specs(i)[c[1]], c[2][1], c[2][2]) :
        c \in {d \in (1..Len(antenna_specs(i))) \X Cells(i) :
            /\ is_valid_position(i, d[2][1], d[2][2])
            /\ antenna_covers_houses(i, d[2][1], d[2][2], antenna_specs(i)[d[1]].radius)}}

ShakeEmptyCanFail(i) ==
    \E p \in Cells(i) :
        \/ ~is_valid_position(i, p[1], p[2])
        \/ \E t \in 1..Len(antenna_specs(i)) :
             ~antenna_covers_houses(i, p[1], p[2], antenna_specs(i)[t].radius)

\* every list one round of the shake loop can leave
ShakeRound(i, sol) ==
    IF sol = <<>>
    THEN (IF ShakeEmptyCanFail(i) THEN {sol} ELSE {})
         \cup {<<n>> : n \in ShakeEmptyChoices(i)}
    ELSE {sol}
         \cup (IF can_add(i, sol)
               THEN {Append(sol, n) : n \in AddChoices(i, "vns", sol)} ELSE {})
         \cup (IF Len(sol) > 1 THEN {RemoveAt(sol, idx) : idx \in 1..Len(sol)} ELSE {})
         \cup {Moved(sol, c[1], c[2]) :
                 c \in {d \in (1..Len(sol)) \X Cells(i) : d[2] \in MoveCells(i, sol, d[1])}}
         \cup {Retyped(sol, c[1], antenna_specs(i)[c[2]]) :
                 c \in (1..Len(sol)) \X (1..Len(antenna_specs(i)))}

\* shake: rounds applied one after the other to every list of sols
RECURSIVE shake(_, _, _)
shake(i, sols, rounds) ==
    IF rounds <= 0 THEN sols
    ELSE shake(i, UNION {ShakeRound(i, s) : s \in sols}, rounds - 1)

shake_callMutInPlace(i, solution, rounds) ==
    {[solution |-> r, result |-> r] : r \in shake(i, {solution}, rounds)}

\* a call shake(solution, k): the list returned, and the caller's list after
\* the call; the rounds work on result = deepcopy(solution) (line 197)
shake_call(i, solution, rounds) ==
    {[solution |-> solution, result |-> r] : r \in shake(i, {solution}, rounds)}

\* the first improving change of type in the scan of local_search
ImprovingRetypes(i, cur) ==
    {c \in (1..Len(cur)) \X (1..Len(antenna_specs(i))) :
        /\ antenna_specs(i)[c[2]].type # cur[c[1]].type
        /\ ObjLess(calculate_objective(i, Retyped(cur, c[1], antenna_specs(i)[c[2]])),
                   calculate_objective(i, cur))}

FirstImprovingRetype(i, cur) ==
    CHOOSE c \in ImprovingRetypes(i, cur) :
        \A d \in ImprovingRetypes(i, cur) :
            c[1] < d[1] \/ (c[1] = d[1] /\ c[2] <= d[2])

RECURSIVE local_search(_, _, _)
local_search(i, cur, max_iters) ==
    IF max_iters = 0 \/ ImprovingRetypes(i, cur) = {} THEN cur
    ELSE LET c == FirstImprovingRetype(i, cur)
         IN  local_search(i, Retyped(cur, c[1], antenna_specs(i)[c[2]]), max_iters - 1)

VNSStart ==
    /\ alg = "vns" /\ pc = "start"
    /\ \E s \in SquareInitialSolutions(inst) :
        /\ current_solution' = s
        /\ current_energy' = calculate_objective(inst, s)
        /\ best_solution' = s
        /\ best_energy' = calculate_objective(inst, s)
    /\ iteration' = 0
    /\ pc' = "outer"
    /\ UNCHANGED <<callVars, seedVars, events, shake_steps, alg, inst, result, greedyVars, temperature, inner,
                   iterations_since_improvement, tabu_list, k, gaVars>>
    /\ within_budget_seen' = (within_budget_seen \/ WithinBudget(inst, current_solution'))

\* the outer while: iteration < max_iterations, k = 1
VNSOuter ==
    /\ alg = "vns" /\ pc = "outer"
    /\ iteration < inst.max_iterations
    /\ k' = 1
    /\ pc' = "inner"
    /\ UNCHANGED <<callVars, seedVars, events, shake_steps, within_budget_seen, alg, inst, result,
                   greedyVars, iteration, current_solution,
                   current_energy, best_solution, best_energy, temperature, inner,
                   iterations_since_improvement, tabu_list, gaVars>>

\* one pass of the inner while: shake, local search, move or not
VNSIter ==
    /\ alg = "vns" /\ pc = "inner"
    /\ k <= inst.k_max
    /\ iteration + 1 <= inst.max_iterations
    /\ iteration' = iteration + 1
    /\ \E c \in shake_call(inst, current_solution, k) :
        LET improved == local_search(inst, c.result, VNS_LOCAL_ITERS)
            improved_obj == calculate_objective(inst, improved)
        IN  IF ObjLess(improved_obj, current_energy)
            THEN /\ current_solution' = improved
                 /\ current_energy' = improved_obj
                 /\ k' = 1
                 /\ IF ObjLess(improved_obj, best_energy)
                    THEN best_solution' = improved /\ best_energy' = improved_obj
                    ELSE UNCHANGED <<best_solution, best_energy>>
            ELSE /\ k' = k + 1
                 /\ current_solution' = c.solution
                 /\ UNCHANGED <<current_energy, best_solution, best_energy>>
    /\ UNCHANGED <<callVars, seedVars, events, alg, inst, pc, result, greedyVars, temperature, inner,
                   iterations_since_improvement, tabu_list, gaVars>>
    /\ within_budget_seen' = (within_budget_seen \/ WithinBudget(inst, current_solution'))
    /\ shake_steps' = shake_steps + 1

\* the inner while ends: k > k_max, or the break on iteration > max_iterations
VNSInnerExit ==
    /\ alg = "vns" /\ pc = "inner"
    /\ \/ k > inst.k_max /\ iteration' = iteration
       \/ k <= inst.k_max /\ iteration + 1 > inst.max_iterations
          /\ iteration' = iteration + 1
    /\ pc' = "outer"
    /\ UNCHANGED <<callVars, seedVars, events, shake_steps, within_budget_seen, alg, inst, result,
                   greedyVars, lsVars, gaVars>>

VNSReturn ==
    /\ alg = "vns" /\ pc = "outer"
    /\ iteration >= inst.max_iterations
    /\ pc' = "done"
    /\ result' = LocalSearchResult(inst, best_solution)
    /\ UNCHANGED <<callVars, seedVars, events, shake_steps, within_budget_seen, alg, inst, greedyVars,
                   iteration, lsVars, gaVars>>

(***************************************************************************)
(* GeneticAlgorithm                                                        *)
(***************************************************************************)
GAAntenna(spec, x, y) ==
    [x |-> x, y |-> y, type |-> spec.type, radius |-> spec.radius,
     max_users |-> spec.max_users, cost |-> spec.cost]

\* insert e behind the antennas that cost at least as much (stable, reverse=True)
RECURSIVE InsertByCost(_, _)
InsertByCost(s, e) ==
    IF s = <<>> THEN <<e>>
    ELSE IF Head(s).cost >= e.cost THEN <<Head(s)>> \o InsertByCost(Tail(s), e)
         ELSE <<e>> \o s

\* solution.sort(key=cost, reverse=True)
RECURSIVE SortByCostDesc(_)
SortByCostDesc(s) ==
    IF s = <<>> THEN <<>>
    ELSE InsertByCost(SortByCostDesc(SubSeq(s, 1, Len(s) - 1)), s[Len(s)])

\* while total_cost > max_budget and solution: sort, pop(0)
RECURSIVE TrimToBudget(_, _)
TrimToBudget(i, s) ==
    IF Truthy(i.max_budget) /\ TotalCost(s) > i.max_budget /\ s # <<>>
    THEN TrimToBudget(i, Tail(SortByCostDesc(s)))
    ELSE s

\* the antennas a random draw of create_random_solution / mutate appends
GAChoices(i) ==
    {GAAntenna(antenna_specs(i)[c[1]], c[2][1], c[2][2]) :
        c \in {d \in (1..Len(antenna_specs(i))) \X Cells(i) :
            /\ d[2] \notin HouseSet(i)
            /\ antenna_covers_houses(i, d[2][1], d[2][2], antenna_specs(i)[d[1]].radius)}}

\* some draw appends nothing
GADrawCanFail(i) ==
    \E p \in Cells(i) :
        \/ p \in HouseSet(i)
        \/ \E t \in 1..Len(antenna_specs(i)) :
             ~antenna_covers_houses(i, p[1], p[2], antenna_specs(i)[t].radius)

GAMaxAntennas(i) == IF Truthy(i.max_antennas) THEN i.max_antennas ELSE GA_DEFAULT_MAX_ANTENNAS

\* every chromosome create_random_solution can return
create_random_solution(i) ==
    {TrimToBudget(i, s) :
        s \in UNION {[1..n -> GAChoices(i)] :
                       n \in {m \in 0..GAMaxAntennas(i) :
                                \/ m >= 1 /\ GAChoices(i) # {}
                                \/ m < GAMaxAntennas(i) /\ GADrawCanFail(i)}}}

\* a fitness is <<0, 0, 1>> for -inf and <<1, n, d>> for the value n / d
NegInf == <<0, 0, 1>>
FitGreater(a, b) == a[1] > b[1] \/ (a[1] = 1 /\ b[1] = 1 /\ a[2] * b[3] > b[2] * a[3])

MaxSpecCost(i) ==
    LET costs == {antenna_specs(i)[t].cost : t \in 1..Len(antenna_specs(i))}
    IN  CHOOSE c \in costs : \A d \in costs : c >= d

calculate_fitness(i, sol) ==
    IF sol = <<>> THEN NegInf
    ELSE IF Truthy(i.max_budget) /\ TotalCost(sol) > i.max_budget THEN NegInf
    ELSE IF Truthy(i.max_antennas) /\ Len(sol) > i.max_antennas THEN NegInf
    ELSE LET covered == Cardinality(CoveredHouses(i, sol))
             nh == Cardinality(HouseSet(i))
             hd == IF nh > 0 THEN nh ELSE 1
             mpc == Len(sol) * MaxSpecCost(i)
         IN  <<1, GA_COVERAGE_WEIGHT * (IF nh > 0 THEN covered ELSE 0) * mpc
                  - GA_COST_WEIGHT * TotalCost(sol) * hd
                  + (IF nh > 0 /\ covered >= nh THEN GA_FULL_BONUS * hd * mpc ELSE 0),
               hd * mpc>>

\* fitnesses.index(max(fitnesses))
FirstBest(i, pop) ==
    CHOOSE j \in 1..Len(pop) :
        /\ \A o \in 1..Len(pop) :
             ~FitGreater(calculate_fitness(i, pop[o]), calculate_fitness(i, pop[j]))
        /\ \A o \in 1..(j - 1) :
             FitGreater(calculate_fitness(i, pop[j]), calculate_fitness(i, pop[o]))

\* the indices one tournament of random.sample(range(n), 3) can elect
TournamentWinners(i, pop) ==
    {w \in 1..Len(pop) :
        \E t \in SUBSET (1..Len(pop)) :
            /\ Cardinality(t) = GA_TOURNAMENT_SIZE
            /\ w \in t
            /\ \A o \in t :
                 ~FitGreater(calculate_fitness(i, pop[o]), calculate_fitness(i, pop[w]))}

\* every list selection can return
selection(i, pop) ==
    {[j \in 1..Len(pop) |-> pop[f[j]]] : f \in [1..Len(pop) -> TournamentWinners(i, pop)]}

GARemoveUseless(i, sol) ==
    SelectSeq(sol, LAMBDA a : antenna_covers_houses(i, a.x, a.y, a.radius))

\* child[:max_allowed]
TrimToCountMutKeep(i, s) == s
TrimToCount(i, s) ==
    IF Len(s) > GAMaxAntennas(i) THEN SubSeq(s, 1, GAMaxAntennas(i)) ELSE s

\* every pair of children crossover can return
crossover(i, parent1, parent2) ==
    {<<parent1, parent2>>}
    \cup (IF parent1 = <<>> \/ parent2 = <<>> THEN {}
          ELSE {<<TrimToBudget(i, TrimToCount(i, GARemoveUseless(i,
                     SubSeq(parent1, 1, pt[1]) \o SubSeq(parent2, pt[2] + 1, Len(parent2))))),
                  TrimToBudget(i, TrimToCount(i, GARemoveUseless(i,
                     SubSeq(parent2, 1, pt[2]) \o SubSeq(parent1, pt[1] + 1, Len(parent1)))))>> :
                  pt \in (0..Len(parent1)) \X (0..Len(parent2))})

\* 'add': the constraint check, then an accepted draw or none within 20 tries
MutateAddOk(i, sol, n) ==
    ~(Truthy(i.max_budget) /\ TotalCost(sol) + n.cost > i.max_budget)

MutateAdd(i, sol) ==
    IF Truthy(i.max_antennas) /\ Len(sol) >= i.max_antennas THEN {sol}
    ELSE {sol} \cup {Append(sol, n) : n \in {c \in GAChoices(i) : MutateAddOk(i, sol, c)}}

\* 'modify': the first type, in catalog order, within budget and covering a house
ModifyTypes(i, sol, idx) ==
    {t \in 1..Len(antenna_specs(i)) :
        /\ ~(Truthy(i.max_budget)
             /\ TotalCost(sol) - sol[idx].cost + antenna_specs(i)[t].cost > i.max_budget)
        /\ antenna_covers_houses(i, sol[idx].x, sol[idx].y, antenna_specs(i)[t].radius)}

MutateModify(i, sol, idx) ==
    IF ModifyTypes(i, sol, idx) = {} THEN sol
    ELSE LET t == CHOOSE u \in ModifyTypes(i, sol, idx) :
                    \A o \in ModifyTypes(i, sol, idx) : u <= o
         IN  [sol EXCEPT ![idx] = GAAntenna(antenna_specs(i)[t], sol[idx].x, sol[idx].y)]

\* every list mutate can return
mutate(i, sol) ==
    {sol}
    \cup MutateAdd(i, sol)
    \cup {RemoveAt(sol, idx) : idx \in 1..Len(sol)}
    \cup {MutateModify(i, sol, idx) : idx \in 1..Len(sol)}

\* best_solution of optimize is kept as <<>> for None and <<s>> for the list s
NoSolution == <<>>

\* initialize_population, best_solution = NoSolution, best_fitness = -inf
GAInitialize ==
    /\ alg = "ga" /\ pc = "start"
    /\ population' \in [1..inst.population_size -> create_random_solution(inst)]
    /\ best_solution' = NoSolution
    /\ best_fitness' = NegInf
    /\ generation' = 0
    /\ pc' = "generation"
    /\ UNCHANGED <<callVars, seedVars, events, shake_steps, within_budget_seen, alg, inst, result,
                   greedyVars, iteration, current_solution,
                   current_energy, best_energy, temperature, inner,
                   iterations_since_improvement, tabu_list, k, selected,
                   next_generation>>

\* head of one generation: evaluate, track the best, select (lines 329-349)
GASelect ==
    /\ alg = "ga" /\ pc = "generation"
    /\ generation < inst.generations
    /\ LET b == FirstBest(inst, population) IN
        IF FitGreater(calculate_fitness(inst, population[b]), best_fitness)
        THEN /\ best_fitness' = calculate_fitness(inst, population[b])
             /\ best_solution' = <<population[b]>>
        ELSE UNCHANGED <<best_fitness, best_solution>>
    /\ selected' \in selection(inst, population)
    /\ next_generation' = <<>>
    /\ inner' = 0
    /\ pc' = "pairs"
    /\ UNCHANGED <<callVars, seedVars, events, shake_steps, within_budget_seen, alg, inst, result,
                   greedyVars, iteration, current_solution,
                   current_energy, best_energy, temperature,
                   iterations_since_improvement, tabu_list, k, population, generation>>

\* one pass of the pair loop: crossover, both mutations, extend; after the
\* last pair the truncated list becomes the population (lines 352-362)
GABreed ==
    /\ alg = "ga" /\ pc = "pairs"
    /\ inner < Len(selected)
    /\ LET parent1 == selected[inner + 1]
           parent2 == IF inner + 2 <= Len(selected) THEN selected[inner + 2]
                      ELSE selected[1]
       IN  \E children \in crossover(inst, parent1, parent2) :
           \E child1 \in mutate(inst, children[1]) :
           \E child2 \in mutate(inst, children[2]) :
               LET ng == next_generation \o <<child1, child2>> IN
               /\ next_generation' = ng
               /\ IF inner + 2 < Len(selected)
                  THEN UNCHANGED <<population, generation, pc>>
                  ELSE /\ population' = SubSeq(ng, 1, Min2(Len(ng), inst.population_size))
                       /\ generation' = generation + 1
                       /\ pc' = "generation"
    /\ inner' = inner + 2
    /\ UNCHANGED <<callVars, seedVars, events, shake_steps, within_budget_seen, alg, inst, result,
                   greedyVars, iteration, current_solution,
                   current_energy, best_solution, best_energy, temperature,
                   iterations_since_improvement, tabu_list, k, selected, best_fitness>>

\* the statistics of best_solution and the returned dict (lines 364-416)
GAResult(i, sol) ==
    LET total_cells == i.width * i.height - Cardinality(HouseSet(i))
        nh == Cardinality(HouseSet(i))
        covered == Cardinality(CoveredHouses(i, sol))
    IN  [antennas |-> sol,
         users_covered |-> covered * USERS_PER_HOUSE,
         total_users |-> nh * USERS_PER_HOUSE,
         user_coverage_percentage |-> Pct(covered, nh),
         total_cost |-> TotalCost(sol),
         coverage_percentage |-> Pct(Cardinality(CoveredCells(i, sol)), total_cells)]

GAReturn ==
    /\ alg = "ga" /\ pc = "generation"
    /\ generation >= inst.generations
    /\ best_solution # NoSolution
    /\ pc' = "done"
    /\ result' = GAResult(inst, best_solution[1])
    /\ UNCHANGED <<callVars, seedVars, events, shake_steps, within_budget_seen, alg, inst, greedyVars,
                   iteration, lsVars, gaVars>>

\* "for antenna in best_solution" with best_solution None raises TypeError
GARaise ==
    /\ alg = "ga" /\ pc = "generation"
    /\ generation >= inst.generations
    /\ best_solution = NoSolution
    /\ pc' = "raised"
    /\ UNCHANGED <<callVars, seedVars, events, shake_steps, within_budget_seen, alg, inst, result,
                   greedyVars, iteration, lsVars, gaVars>>

(***************************************************************************)
(* Problem instances and parameters explored                               *)
(***************************************************************************)
Problem(w, h, houses, allowed, budget, cap) ==
    [width |-> w, height |-> h, houses |-> houses, allowed |-> allowed,
     max_budget |-> budget, max_antennas |-> cap]

NoHouses == Problem(2, 2, <<>>, <<>>, None, None)
TwoHouses == Problem(3, 2, << <<1, 1>>, <<2, 0>> >>, <<>>, None, None)
TwoHousesBudget == Problem(3, 2, << <<1, 1>>, <<2, 0>> >>, <<>>, 300, None)
FarHousesBudget == Problem(3, 2, << <<0, 0>>, <<2, 1>> >>, <<>>, 300, None)
OneHouseCap == Problem(2, 2, << <<0, 0>> >>, <<>>, None, 2)
OneHouseBoth == Problem(2, 2, << <<0, 0>> >>, <<>>, 1000, 2)
Unaffordable == Problem(2, 2, << <<0, 0>> >>, <<>>, 100, 1)
AllHouses == Problem(2, 1, << <<0, 0>>, <<1, 0>> >>, <<>>, None, None)
\* allowed_antenna_types = [], = [MACRO] (a type the catalog lacks), = [PICO]
OneHouseEmptyList == Problem(2, 2, << <<0, 0>> >>, << <<>> >>, None, None)
OneHouseNoType == Problem(2, 2, << <<0, 0>> >>, << <<"Macro">> >>, None, None)
OneHousePico == Problem(3, 2, << <<2, 1>> >>, << <<"Pico">> >>, None, None)
\* two houses no single Femto covers, a budget below the cost of two Femtos
FarHousesFemto == Problem(4, 1, << <<0, 0>>, <<3, 0>> >>, << <<"Femto">> >>, 300, 2)

GreedyParams(mode, target) == [optimization_mode |-> mode, target_coverage |-> target]
GreedyInstances ==
    {p @@ GreedyParams(m, t) :
        p \in {NoHouses, TwoHouses, TwoHousesBudget, FarHousesBudget, OneHouseCap,
               OneHouseBoth, Unaffordable, AllHouses, OneHouseEmptyList,
               OneHouseNoType, OneHousePico},
        m \in {"coverage", "budget"}, t \in {0, 50, 100}}

SAParams ==
    [initial_temperature |-> MaxTemperature, cooling_rate |-> <<1, 2>>, min_temperature |-> 1,
     iterations_per_temp |-> 2, early_stopping_iterations |-> 3]
LocalSearchProblems == {NoHouses, OneHouseCap, OneHouseBoth, Unaffordable}
SAInstances ==
    {p @@ SAParams : p \in LocalSearchProblems \cup {OneHouseNoType, FarHousesFemto}}
TabuInstances == {p @@ [iterations |-> MaxIterations, tabu_size |-> 2] : p \in LocalSearchProblems}
HCInstances ==
    {p @@ [max_iterations |-> m] : p \in LocalSearchProblems, m \in {1, MaxIterations}}
OneHouseTight == Problem(2, 2, << <<0, 0>> >>, <<>>, 200, 2)
OneHouseSingle == Problem(2, 2, << <<0, 0>> >>, <<>>, 400, 1)
GAInstances ==
    {p @@ [population_size |-> 3, generations |-> MaxGenerations] :
        p \in {NoHouses, Unaffordable, OneHouseTight, OneHouseSingle}}
VNSInstances ==
    {p @@ [max_iterations |-> MaxIterations, k_max |-> km] :
        p \in LocalSearchProblems, km \in {0, 2}}

Instances(a) ==
    CASE a = "greedy" -> GreedyInstances
      [] a = "sa" -> SAInstances
      [] a = "tabu" -> TabuInstances
      [] a = "hc" -> HCInstances
      [] a = "vns" -> VNSInstances
      [] a = "ga" -> GAInstances

Algorithms == {"greedy", "sa", "tabu", "hc", "vns", "ga"}

(***************************************************************************)
(* Specification                                                           *)
(***************************************************************************)
\* the energies before optimize() has assigned them: VNS keeps its objectives
\* as pairs (see Infinite), the other drivers as integers
NoEnergy(a) == IF a = "vns" THEN <<0, 0>> ELSE 0

Init ==
    /\ alg \in Algorithms
    /\ inst \in Instances(alg)
    /\ pc = IF alg = "greedy" THEN "loop" ELSE "start"
    /\ result = NoResult
    /\ placed_antennas = <<>> /\ covered_cells = {} /\ covered_houses = {}
    /\ iteration = 0
    /\ current_solution = <<>> /\ current_energy = NoEnergy(alg)
    /\ best_solution = <<>> /\ best_energy = NoEnergy(alg)
    /\ temperature = <<0, 1>> /\ inner = 0 /\ iterations_since_improvement = 0
    /\ tabu_list = <<>> /\ k = 0
    /\ population = <<>> /\ selected = <<>> /\ next_generation = <<>>
    /\ generation = 0 /\ best_fitness = NegInf
    /\ rng = <<0, 0>> /\ objects = <<>> /\ oracle = {} /\ running = 0 /\ others = 0
    /\ events = <<>> /\ shake_steps = 0 /\ within_budget_seen = FALSE
    /\ sys = NoSystem /\ call = NoCall

Next ==
    \/ GreedyPlace \/ GreedyReturn
    \/ SAStart \/ SARaise \/ SAAccept \/ SAReject \/ SAReturn
    \/ TabuStart \/ TabuIter \/ TabuReturn
    \/ HCStart \/ HCClimb \/ HCReturn
    \/ VNSStart \/ VNSOuter \/ VNSIter \/ VNSInnerExit \/ VNSReturn
    \/ GAInitialize \/ GASelect \/ GABreed \/ GAReturn \/ GARaise

Spec == Init /\ [][Next]_vars

\* Greedy runs alone.  optimize() is synchronous and runs to completion: a
\* step that can be taken is taken.
GreedyInit == Init /\ alg = "greedy"
GreedyNext == GreedyPlace \/ GreedyReturn
GreedySpec == GreedyInit /\ [][GreedyNext]_vars /\ WF_vars(GreedyNext)

\* VNS runs alone, to completion
VNSInit == Init /\ alg = "vns"
VNSNext == VNSStart \/ VNSOuter \/ VNSIter \/ VNSInnerExit \/ VNSReturn
\* the enabling condition of VNSNext: from "start" VNSStart can step, from
\* "outer" VNSOuter or VNSReturn, from "inner" VNSIter or VNSInnerExit
VNSRuns == alg = "vns" /\ pc \in {"start", "outer", "inner"}
\* the interpreter keeps executing optimize: weak fairness of the loop-control
\* steps, and weak fairness of VNSNext as a whole, WF_vars(VNSNext), with
\* ENABLED <<VNSNext>>_vars written as VNSRuns
VNSFair ==
    /\ WF_vars(VNSOuter \/ VNSInnerExit \/ VNSReturn)
    /\ ([]<>(~VNSRuns) \/ []<><<VNSNext>>_vars)
VNSSpec == VNSInit /\ [][VNSNext]_vars /\ VNSFair

(***************************************************************************)
(* Properties                                                              *)
(***************************************************************************)
\* every placement the run holds: partial, current, best, population, result
CandidatePlacements ==
    {placed_antennas, current_solution, result.antennas}
    \cup (IF alg = "ga"
          THEN Range(population) \cup Range(selected) \cup Range(next_generation)
               \cup Range(best_solution)
          ELSE {best_solution})

Returned == pc = "done"

CoversAHouse(a) == antenna_covers_houses(inst, a.x, a.y, a.radius)

DistinctPositions(sol) ==
    \A j \in 1..Len(sol) : \A l \in 1..Len(sol) :
        j # l => <<sol[j].x, sol[j].y>> # <<sol[l].x, sol[l].y>>

CheapestCost ==
    LET costs == {antenna_specs(inst)[t].cost : t \in 1..Len(antenna_specs(inst))}
    IN  CHOOSE c \in costs : \A d \in costs : c <= d

\* C1: in the placement any of the six drivers returns, every facility has at
\* least one house within its radius.
C1_ReturnedFacilitiesCoverAHouse ==
    Returned => \A j \in 1..Len(result.antennas) : CoversAHouse(result.antennas[j])

\* C2: in every candidate placement of every driver (initial, neighbor, shaken,
\* child, mutated, returned) no two facilities share an (x, y) position.
C2_NoSharedPosition ==
    \A sol \in CandidatePlacements : DistinctPositions(sol)

\* C3: in every candidate placement, at every step and in the returned result,
\* no facility is on a house cell and every facility lies inside the grid.
C3_OffHousesInsideGrid ==
    \A sol \in CandidatePlacements :
        \A j \in 1..Len(sol) :
            /\ <<sol[j].x, sol[j].y>> \notin HouseSet(inst)
            /\ sol[j].x \in 0..(inst.width - 1)
            /\ sol[j].y \in 0..(inst.height - 1)

\* C3 witness: a local search has moved or added (its current placement differs
\* from the best one) and a run has returned a non-empty placement.
C3_Witness ==
    \/ /\ alg \in {"sa", "tabu", "vns"}
       /\ iteration >= 2
       /\ current_solution # <<>>
       /\ current_solution # best_solution
    \/ /\ alg = "ga" /\ Returned /\ Len(result.antennas) = 2

\* C4 as stated: with a budget set, greedy returns total_cost <= budget (and at
\* most budget / cheapest cost facilities) in whatever optimization mode.
C4_GreedyWithinBudgetAnyMode ==
    (alg = "greedy" /\ inst.max_budget # None /\ Returned)
        => /\ result.total_cost <= inst.max_budget
           /\ Len(result.antennas) * CheapestCost <= inst.max_budget

\* C4 amended: with a budget set, greedy running in budget mode returns
\* total_cost <= budget and at most budget / cheapest cost facilities.
C4_GreedyWithinBudgetInBudgetMode ==
    (alg = "greedy" /\ inst.optimization_mode = "budget"
     /\ inst.max_budget # None /\ Returned)
        => /\ result.total_cost <= inst.max_budget
           /\ Len(result.antennas) * CheapestCost <= inst.max_budget

\* C4 witness: greedy in budget mode returned a paid placement that leaves
\* users uncovered because the best next facility was not affordable.
C4_Witness ==
    /\ alg = "greedy" /\ inst.optimization_mode = "budget"
    /\ inst.max_budget # None /\ Returned
    /\ result.total_cost > 0
    /\ result.users_covered < result.total_users
    /\ GreedyBest.found
    /\ TotalCost(placed_antennas) + antenna_specs(inst)[GreedyBest.c[1]].cost
         > inst.max_budget

WithinCaps(sol) ==
    /\ inst.max_budget # None => TotalCost(sol) <= inst.max_budget
    /\ inst.max_antennas # None => Len(sol) <= inst.max_antennas

\* C5: in the genetic driver every individual of the population, after
\* initialization and after every generation, costs at most the budget and has
\* at most max_antennas facilities, and so does the returned best placement.
C5_PopulationWithinCaps ==
    alg = "ga" =>
        /\ \A j \in 1..Len(population) : WithinCaps(population[j])
        /\ Returned => WithinCaps(result.antennas)

\* C5 witness: a generation has completed with both caps set and the new
\* population holds an individual that uses the whole budget.
C5_Witness ==
    /\ alg = "ga" /\ pc = "generation" /\ generation >= 1
    /\ inst.max_budget # None /\ inst.max_antennas # None
    /\ \E j \in 1..Len(population) :
         population[j] # <<>> /\ TotalCost(population[j]) = inst.max_budget

\* C6: with max_antennas >= 1 set, the current placement of simulated
\* annealing, tabu search, hill climbing and VNS never holds more than
\* max_antennas facilities, at any step and in the returned result.
C6_CurrentWithinCountCap ==
    (alg \in {"sa", "tabu", "hc", "vns"} /\ inst.max_antennas # None
     /\ inst.max_antennas >= 1)
        => /\ Len(current_solution) <= inst.max_antennas
           /\ Returned => Len(result.antennas) <= inst.max_antennas

\* C6 witness: after at least one iteration the current placement is at the cap.
C6_Witness ==
    /\ alg \in {"sa", "tabu", "hc", "vns"}
    /\ inst.max_antennas # None /\ inst.max_antennas >= 1
    /\ iteration >= 1
    /\ Len(current_solution) = inst.max_antennas

\* C7: with zero houses every strategy ends without raising and returns an
\* empty placement, total cost 0 and user coverage percentage 0.
C7_NoHousesEmptyResult ==
    HouseSet(inst) = {} =>
        /\ pc # "raised"
        /\ Returned => /\ result.antennas = <<>>
                       /\ result.total_cost = 0
                       /\ result.user_coverage_percentage[1] = 0

\* C8: when no placement satisfies the hard constraints (a budget below the
\* cheapest allowed facility) the driver does not raise.
C8_InfeasibleDoesNotRaise ==
    (inst.max_budget # None /\ inst.max_budget < CheapestCost) => pc # "raised"

(***************************************************************************)
(* The process-wide generator of the random module.  SimulatedAnnealing-,  *)
(* TabuSearch-, HillClimbing- and VNSAlgorithm.__init__ all reseed it with *)
(* random.seed(random_seed); every draw of every instance reads it.  Its   *)
(* state is <<seed, n>>: the last seed and the number of drawing steps     *)
(* since.  What a step draws is a function of the generator state and of   *)
(* the program state the step starts from; the function is fixed lazily in *)
(* oracle the first time a pair is met.                                    *)
(***************************************************************************)
SystemSeed == 0
Seeds == {None} \cup (1..MaxSeed)
Objects == 1..MaxObjects

NoLocals == SAState("new", <<>>, 0, <<>>, 0, <<0, 1>>, 0, 0, 0)

\* random.seed(random_seed) under "if random_seed is not None"
Reseed(g, seed) == IF seed # None THEN <<seed, 0>> ELSE g

\* the outcome to of a step from program state from agrees with the generator
Drawn(from, to) ==
    LET known == {e \in oracle : e.rng = rng /\ e.from = from}
    IN  /\ known # {} => to \in {e.to : e \in known}
        /\ oracle' = oracle \cup {[rng |-> rng, from |-> from, to |-> to]}

\* instances constructed and not yet run have had something happen in between
Disturb(objs, o) ==
    [j \in DOMAIN objs |->
        IF j # o /\ objs[j].pc = "built" THEN [objs[j] EXCEPT !.disturbed = TRUE]
        ELSE objs[j]]

\* SimulatedAnnealingAlgorithm(..., random_seed=seed) in slot o
SeedConstruct(o, seed) ==
    /\ running = 0
    /\ objects[o].pc = "none"
    /\ objects' = Disturb([objects EXCEPT ![o] =
                     [pc |-> "built", seed |-> seed, locals |-> NoLocals,
                      result |-> NoResult, disturbed |-> FALSE]], o)
    /\ rng' = Reseed(rng, seed)
    /\ UNCHANGED <<oracle, running, others, driverVars, histVars, callVars>>

\* the constructor of an instance of another driver (tabu, hill climbing, VNS)
SeedConstructOther(seed) ==
    /\ running = 0
    /\ others < MaxOthers
    /\ others' = others + 1
    /\ objects' = Disturb(objects, 0)
    /\ rng' = Reseed(rng, seed)
    /\ UNCHANGED <<oracle, running, driverVars, histVars, callVars>>

\* optimize() of slot o up to the while loop
SeedOptimizeStart(o) ==
    /\ running = 0
    /\ objects[o].pc = "built"
    /\ \E st \in SAStartStates(inst) :
        /\ Drawn(NoLocals, st)
        /\ objects' = Disturb([objects EXCEPT ![o].pc = "run", ![o].locals = st], o)
    /\ rng' = <<rng[1], rng[2] + 1>>
    /\ running' = o
    /\ UNCHANGED <<others, driverVars, histVars, callVars>>

\* one inner iteration of the running optimize()
SeedOptimizeStep(o) ==
    /\ running = o
    /\ SALoopRuns(inst, objects[o].locals)
    /\ \E st \in SAAcceptStates(inst, objects[o].locals)
                   \cup SARejectStates(inst, objects[o].locals) :
        /\ Drawn(objects[o].locals, st)
        /\ objects' = [objects EXCEPT ![o].locals = st]
    /\ rng' = <<rng[1], rng[2] + 1>>
    /\ UNCHANGED <<running, others, driverVars, histVars, callVars>>

\* the running optimize() returns
SeedOptimizeReturn(o) ==
    /\ running = o
    /\ SALoopEnded(inst, objects[o].locals)
    /\ objects' = [objects EXCEPT
                     ![o].pc = "done",
                     ![o].result = LocalSearchResult(inst, objects[o].locals.best_solution)]
    /\ running' = 0
    /\ UNCHANGED <<rng, oracle, others, driverVars, histVars, callVars>>

SeedInstance ==
    Problem(2, 2, << <<0, 0>> >>, <<>>, None, 1) @@
    [initial_temperature |-> 2, cooling_rate |-> <<1, 2>>, min_temperature |-> 1,
     iterations_per_temp |-> 1, early_stopping_iterations |-> None]

SeedInit ==
    /\ alg = "sa" /\ inst = SeedInstance /\ pc = "seeded"
    /\ result = NoResult
    /\ placed_antennas = <<>> /\ covered_cells = {} /\ covered_houses = {}
    /\ iteration = 0
    /\ current_solution = <<>> /\ current_energy = 0
    /\ best_solution = <<>> /\ best_energy = 0
    /\ temperature = <<0, 1>> /\ inner = 0 /\ iterations_since_improvement = 0
    /\ tabu_list = <<>> /\ k = 0
    /\ population = <<>> /\ selected = <<>> /\ next_generation = <<>>
    /\ generation = 0 /\ best_fitness = NegInf
    /\ rng = <<SystemSeed, 0>>
    /\ objects = [o \in Objects |->
                    [pc |-> "none", seed |-> None, locals |-> NoLocals,
                     result |-> NoResult, disturbed |-> FALSE]]
    /\ oracle = {}
    /\ running = 0
    /\ others = 0
    /\ events = <<>> /\ shake_steps = 0 /\ within_budget_seen = FALSE
    /\ sys = NoSystem /\ call = NoCall

SeedNext ==
    \/ \E o \in Objects : \E seed \in Seeds : SeedConstruct(o, seed)
    \/ \E seed \in Seeds : SeedConstructOther(seed)
    \/ \E o \in Objects : SeedOptimizeStart(o)
    \/ \E o \in Objects : SeedOptimizeStep(o)
    \/ \E o \in Objects : SeedOptimizeReturn(o)

SeedSpec == SeedInit /\ [][SeedNext]_vars

\* C9: two simulated annealing runs constructed with the same seed, instance
\* and parameters return identical placements and identical statistics.
C9_SameSeedSameResult ==
    \A o1 \in Objects : \A o2 \in Objects :
        (/\ objects[o1].pc = "done" /\ objects[o2].pc = "done"
         /\ objects[o1].seed # None
         /\ objects[o1].seed = objects[o2].seed)
            => objects[o1].result = objects[o2].result

\* C10: the output of a seeded run is not changed by another instance being
\* constructed or run between this instance's construction and its optimize():
\* it equals the output of a run with the same seed that nothing came between.
C10_RunsIndependent ==
    \A o1 \in Objects : \A o2 \in Objects :
        (/\ objects[o1].pc = "done" /\ objects[o2].pc = "done"
         /\ objects[o1].seed # None
         /\ objects[o1].seed = objects[o2].seed
         /\ objects[o1].disturbed /\ ~objects[o2].disturbed)
            => objects[o1].result = objects[o2].result

(***************************************************************************)
(* The streaming endpoint: optimize_stream and its generate_events         *)
(* generator (main.py).  alg holds request.algorithm, inst the request,    *)
(* events what the generator has yielded.                                  *)
(***************************************************************************)
\* the methods class SimulatedAnnealingAlgorithm defines
SAMethods ==
    {"__init__", "get_coverage_area", "calculate_solution_metrics", "is_valid_position",
     "antenna_covers_houses", "generate_initial_solution", "generate_neighbor",
     "acceptance_probability", "remove_useless_antennas", "optimize"}

\* the names validate_algorithm of OptimizationRequest lets through
RequestAlgorithms == {"greedy", "genetic", "simulated-annealing", "brute-force"}

StreamRequests ==
    {Problem(w, h, houses, <<>>, budget, cap) :
        w \in 1..2, h \in 1..2,
        houses \in {<<>>, << <<0, 0>> >>, << <<1, 1>> >>, << <<0, 0>>, <<2, 0>> >>},
        budget \in {None, 300}, cap \in {None, 1}}

\* every house lies inside the grid (the loop over request.obstacles)
HousesInBounds(i) ==
    \A j \in 1..Len(i.houses) :
        /\ 0 <= i.houses[j][1] /\ i.houses[j][1] < i.width
        /\ 0 <= i.houses[j][2] /\ i.houses[j][2] < i.height

StreamAccepts == alg = "simulated-annealing" /\ HousesInBounds(inst)

\* optimize_stream raises HTTPException(400)
StreamReject ==
    /\ pc = "request"
    /\ ~StreamAccepts
    /\ pc' = "http_400"
    /\ UNCHANGED <<alg, inst, result, greedyVars, iteration, lsVars, gaVars, callVars, seedVars, histVars>>

\* optimize_stream returns EventSourceResponse(generate_events())
StreamAccept ==
    /\ pc = "request"
    /\ StreamAccepts
    /\ pc' = "response"
    /\ UNCHANGED <<alg, inst, result, greedyVars, iteration, lsVars, gaVars, callVars, seedVars, histVars>>

\* generate_events runs to its first yield: the algorithm object is built,
\* the lookup of algorithm.optimize_streaming raises AttributeError, and the
\* except clause yields the error event
StreamGenerate ==
    /\ pc = "response"
    /\ "optimize_streaming" \notin SAMethods
    /\ events' = Append(events, [event_type |-> "error"])
    /\ pc' = "yielded"
    /\ UNCHANGED <<alg, inst, result, greedyVars, iteration, lsVars, gaVars, callVars, seedVars,
                   shake_steps, within_budget_seen>>

\* generate_events resumes after the yield of the except clause and ends
StreamClose ==
    /\ pc = "yielded"
    /\ pc' = "closed"
    /\ UNCHANGED <<alg, inst, result, greedyVars, iteration, lsVars, gaVars, callVars, seedVars, histVars>>

StreamInit ==
    /\ alg \in RequestAlgorithms /\ inst \in StreamRequests /\ pc = "request"
    /\ result = NoResult
    /\ placed_antennas = <<>> /\ covered_cells = {} /\ covered_houses = {}
    /\ iteration = 0
    /\ current_solution = <<>> /\ current_energy = 0
    /\ best_solution = <<>> /\ best_energy = 0
    /\ temperature = <<0, 1>> /\ inner = 0 /\ iterations_since_improvement = 0
    /\ tabu_list = <<>> /\ k = 0
    /\ population = <<>> /\ selected = <<>> /\ next_generation = <<>>
    /\ generation = 0 /\ best_fitness = NegInf
    /\ rng = <<0, 0>> /\ objects = <<>> /\ oracle = {} /\ running = 0 /\ others = 0
    /\ events = <<>> /\ shake_steps = 0 /\ within_budget_seen = FALSE
    /\ sys = NoSystem /\ call = NoCall

StreamNext == StreamReject \/ StreamAccept \/ StreamGenerate \/ StreamClose

StreamSpec == StreamInit /\ [][StreamNext]_vars

\* C11: a streaming simulated annealing run yields its progress events in
\* increasing iteration order, then exactly one terminal "complete" event,
\* and nothing after it.
C11_StreamEndsWithOneComplete ==
    pc = "closed" =>
        /\ events # <<>>
        /\ events[Len(events)].event_type = "complete"
        /\ \A j \in 1..(Len(events) - 1) : events[j].event_type = "progress"
        /\ \A j \in 1..(Len(events) - 1) : \A l \in 1..(Len(events) - 1) :
               j < l => events[j].iteration < events[l].iteration

\* C12: the greedy main loop runs at most width x height iterations, places
\* at most one facility per iteration, and terminates on every input.
C12_GreedyLoopBoundedAndEnds ==
    /\ [](alg = "greedy" =>
            /\ iteration <= inst.width * inst.height
            /\ Len(placed_antennas) <= iteration)
    /\ (alg = "greedy") ~> (pc = "done")

\* C12 witness: greedy has returned after placing in more than one iteration,
\* and it has returned on zero houses, on an unreachable target and on an
\* unsatisfiable budget (each is one run; the witness is the first of them).
C12_Witness ==
    /\ alg = "greedy" /\ pc = "done"
    /\ \/ Len(placed_antennas) >= 2 /\ iteration > Len(placed_antennas)
       \/ inst = AllHouses @@ GreedyParams("coverage", 100) /\ iteration = 1

\* C13: VNS optimize always terminates and performs at most max_iterations
\* shake-then-polish steps, for every max_iterations and every k_max,
\* k_max < 1 included.
C13_VNSBoundedAndEnds ==
    /\ [](alg = "vns" => shake_steps <= inst.max_iterations)
    /\ (alg = "vns") ~> (pc = "done")

\* C14: across the placements of a greedy run users_covered never decreases,
\* and every placement step adds a facility that covers at least one house
\* that was uncovered before the step.
C14_GreedyPlacementsAddCoverage ==
    [][alg = "greedy" =>
        /\ Cardinality(covered_houses') * USERS_PER_HOUSE >= GreedyUsersCovered
        /\ Len(placed_antennas') > Len(placed_antennas) =>
               /\ Len(placed_antennas') = Len(placed_antennas) + 1
               /\ covered_houses' \ covered_houses # {}]_vars

\* the allowed-type list is given and leaves no type of the catalog: it is
\* empty, or none of its types is in the catalog
EmptyAfterFiltering(i) ==
    /\ i.allowed # <<>>
    /\ \A j \in 1..Len(Catalog) : Catalog[j].type \notin Range(i.allowed[1])

GreedySingleHouseReturned ==
    /\ alg = "greedy" /\ Returned
    /\ Len(inst.houses) = 1
    /\ inst.width * inst.height > 1
    /\ antenna_specs(inst) # <<>>
    /\ inst.max_budget = None /\ inst.max_antennas = None
    /\ inst.target_coverage > 0

\* (x, y) is one of the eight cells around the house h
Adjacent(x, y, h) ==
    /\ <<x, y>> # h
    /\ x - h[1] \in {-1, 0, 1}
    /\ y - h[2] \in {-1, 0, 1}

\* C15: with a single house, a type of radius >= 1 and no constraints, greedy
\* places exactly one facility, on a cell adjacent to the house and not on
\* it, and returns users_covered = total_users.
C15_SingleHouseOneAdjacentFacility ==
    GreedySingleHouseReturned =>
        /\ Len(result.antennas) = 1
        /\ <<result.antennas[1].x, result.antennas[1].y>> # inst.houses[1]
        /\ Adjacent(result.antennas[1].x, result.antennas[1].y, inst.houses[1])
        /\ result.users_covered = result.total_users

\* C15 amended: with a single house, a type of radius >= 1 and no
\* constraints, greedy places exactly one facility, on a cell within the
\* radius of its type from the house and not on it, and returns
\* users_covered = total_users.
C15_SingleHouseOneFacilityInRange ==
    GreedySingleHouseReturned =>
        /\ Len(result.antennas) = 1
        /\ <<result.antennas[1].x, result.antennas[1].y>> # inst.houses[1]
        /\ InDisc(result.antennas[1].x - inst.houses[1][1],
                  result.antennas[1].y - inst.houses[1][2],
                  result.antennas[1].radius)
        /\ result.users_covered = result.total_users

\* a single-house run has returned one facility two cells away from the house
C15_Witness ==
    /\ GreedySingleHouseReturned
    /\ Len(result.antennas) = 1
    /\ ~Adjacent(result.antennas[1].x, result.antennas[1].y, inst.houses[1])
    /\ result.users_covered = USERS_PER_HOUSE

\* C16: for every driver and every instance the returned statistics satisfy
\* 0 <= users_covered <= total_users and total_cost >= 0, and the user
\* coverage percentage lies between 0 and 100.
C16_ReturnedStatsInRange ==
    Returned =>
        /\ 0 <= result.users_covered
        /\ result.users_covered <= result.total_users
        /\ result.total_cost >= 0
        /\ 0 <= result.user_coverage_percentage[1]
        /\ result.user_coverage_percentage[1] <= 100 * result.user_coverage_percentage[2]

\* a driver has returned two or more facilities that cover every house
C16_Witness ==
    /\ Returned
    /\ Len(result.antennas) >= 2
    /\ result.total_users > 0
    /\ result.users_covered = result.total_users
    /\ result.total_cost > 0

\* the sum of the cost fields of the first n facilities of s
RECURSIVE CostOfFirst(_, _)
CostOfFirst(s, n) == IF n = 0 THEN 0 ELSE s[n].cost + CostOfFirst(s, n - 1)

\* the houses within the radius of at least one facility of s
HousesInRange(i, s) ==
    {h \in HouseSet(i) : \E j \in 1..Len(s) :
        (s[j].x - h[1]) * (s[j].x - h[1]) + (s[j].y - h[2]) * (s[j].y - h[2])
            <= s[j].radius * s[j].radius}

\* C18: the returned statistics are those of the returned placement:
\* total_cost is the sum of the costs of the returned facilities and
\* users_covered is users-per-house times the number of distinct houses
\* within the radius of at least one returned facility.
C18_StatsOfReturnedPlacement ==
    Returned =>
        /\ result.total_cost = CostOfFirst(result.antennas, Len(result.antennas))
        /\ result.users_covered
               = USERS_PER_HOUSE * Cardinality(HousesInRange(inst, result.antennas))

\* a driver has returned two facilities that both have the same house in range
C18_Witness ==
    /\ Returned
    /\ \E j \in 1..Len(result.antennas) : \E l \in 1..Len(result.antennas) :
           /\ j < l
           /\ HousesInRange(inst, <<result.antennas[j]>>)
                  \cap HousesInRange(inst, <<result.antennas[l]>>) # {}

\* C19: when simulated annealing, tabu search, hill climbing or VNS runs
\* with a budget, the returned placement costs more than the budget only if
\* no within-budget placement was ever the current solution of the run.
C19_OverBudgetOnlyIfNeverWithin ==
    (/\ alg \in {"sa", "tabu", "hc", "vns"}
     /\ Returned
     /\ inst.max_budget # None
     /\ result.total_cost > inst.max_budget) => ~within_budget_seen

\* the COST_DIVISOR of the running driver's energy
EnergyDivisor == IF alg = "sa" THEN SA_COST_DIVISOR ELSE LS_COST_DIVISOR

\* C20: each objective treats the empty placement as maximally bad: the
\* energy (SA, tabu search, hill climbing) and the objective (VNS) of the
\* empty placement are at least those of every non-empty placement the run
\* evaluates, and the fitness (genetic) of the empty placement is at most
\* that of every non-empty member of the population.
C20_EmptyPlacementIsWorst ==
    /\ (alg \in {"sa", "tabu", "hc"} /\ current_solution # <<>>) =>
           Energy(inst, current_solution, EnergyDivisor)
               <= Energy(inst, <<>>, EnergyDivisor)
    /\ (alg = "vns" /\ current_solution # <<>>) =>
           ~ObjLess(calculate_objective(inst, <<>>),
                    calculate_objective(inst, current_solution))
    /\ alg = "ga" =>
           \A j \in 1..Len(population) :
               population[j] # <<>> =>
                   ~FitGreater(calculate_fitness(inst, <<>>),
                               calculate_fitness(inst, population[j]))

(***************************************************************************)
(* Calls of single methods, executed statement by statement in `call`      *)
(***************************************************************************)
\* no driver is running: every variable of optimize() at its initial value
DriversIdle ==
    /\ result = NoResult
    /\ placed_antennas = <<>> /\ covered_cells = {} /\ covered_houses = {}
    /\ iteration = 0
    /\ current_solution = <<>> /\ current_energy = 0
    /\ best_solution = <<>> /\ best_energy = 0
    /\ temperature = <<0, 1>> /\ inner = 0 /\ iterations_since_improvement = 0
    /\ tabu_list = <<>> /\ k = 0
    /\ population = <<>> /\ selected = <<>> /\ next_generation = <<>>
    /\ generation = 0 /\ best_fitness = NegInf
    /\ rng = <<0, 0>> /\ objects = <<>> /\ oracle = {} /\ running = 0 /\ others = 0
    /\ events = <<>> /\ shake_steps = 0 /\ within_budget_seen = FALSE

MaxRadius == 2

\* the grids and house sets get_coverage_area is called on
CoverageGrids ==
    {Problem(w, h, hs, <<>>, None, None) :
        w \in 1..3, h \in 1..2,
        hs \in {<<>>, << <<0, 0>> >>, << <<0, 0>>, <<1, 0>> >>}}

\* 0 <= nx < self.width and 0 <= ny < self.height
InBoundsMutInclusive(i, nx, ny) == 0 <= nx /\ nx <= i.width /\ 0 <= ny /\ ny <= i.height
InBounds(i, nx, ny) == 0 <= nx /\ nx < i.width /\ 0 <= ny /\ ny < i.height

\* the frame of get_coverage_area(x, y, radius) at the top of its loops
CoverageFrame(x, y, radius, n, first) ==
    [name |-> "get_coverage_area", pc |-> "loop", x |-> x, y |-> y, radius |-> radius,
     dx |-> -radius, dy |-> -radius, covered_cells |-> {}, covered_houses |-> {},
     n |-> n, first |-> first]

\* one pass through the body of the inner for loop (lines 126-137)
CoverageLoop ==
    /\ call.name = "get_coverage_area" /\ call.pc = "loop"
    /\ call.dx <= call.radius
    /\ LET nx == call.x + call.dx
           ny == call.y + call.dy
           hit == /\ InDisc(call.dx, call.dy, call.radius)
                  /\ InBounds(inst, nx, ny)
           house == <<nx, ny>> \in HouseSet(inst)
           last == call.dy = call.radius
       IN  call' = [call EXCEPT
                      !.covered_houses = IF hit /\ house THEN @ \cup {<<nx, ny>>} ELSE @,
                      !.covered_cells = IF hit /\ ~house THEN @ \cup {<<nx, ny>>} ELSE @,
                      !.dy = IF last THEN -call.radius ELSE @ + 1,
                      !.dx = IF last THEN @ + 1 ELSE @]
    /\ UNCHANGED <<driverVars, seedVars, histVars, sys>>

\* return covered_cells, covered_houses (line 139); the caller keeps the pair
\* of the first call and calls again with the same arguments
CoverageReturn ==
    /\ call.name = "get_coverage_area" /\ call.pc = "loop"
    /\ call.dx > call.radius
    /\ call' = IF call.n = 1
               THEN CoverageFrame(call.x, call.y, call.radius, 2,
                        << [cells |-> call.covered_cells, houses |-> call.covered_houses] >>)
               ELSE [call EXCEPT !.pc = "returned"]
    /\ UNCHANGED <<driverVars, seedVars, histVars, sys>>

CoverageInit ==
    /\ alg = "none" /\ pc = "call"
    /\ inst \in CoverageGrids
    /\ DriversIdle
    /\ sys = NoSystem
    /\ \E x \in -1..inst.width, y \in -1..inst.height, radius \in 0..MaxRadius :
           call = CoverageFrame(x, y, radius, 1, <<>>)

CoverageNext == CoverageLoop \/ CoverageReturn

CoverageSpec == CoverageInit /\ [][CoverageNext]_vars

\* C21: get_coverage_area(x, y, r) returns exactly the points of the grid at
\* squared distance at most r^2 from (x, y), split into two disjoint sets,
\* the houses among them and the other cells; a second call with the same
\* arguments returns the same two sets.
C21_CoverageIsTheClippedDisc ==
    (call.name = "get_coverage_area" /\ call.pc = "returned") =>
        LET disc == {p \in (0..(inst.width - 1)) \X (0..(inst.height - 1)) :
                        (p[1] - call.x) * (p[1] - call.x)
                            + (p[2] - call.y) * (p[2] - call.y)
                                <= call.radius * call.radius}
        IN  /\ call.covered_houses \cup call.covered_cells = disc
            /\ call.covered_houses \cap call.covered_cells = {}
            /\ call.covered_houses = {p \in disc : p \in HouseSet(inst)}
            /\ call.covered_cells = {p \in disc : p \notin HouseSet(inst)}
            /\ call.first[1].cells = call.covered_cells
            /\ call.first[1].houses = call.covered_houses

\* a call has returned a disc clipped by the grid border that holds a house
\* and a cell
C21_Witness ==
    /\ call.name = "get_coverage_area" /\ call.pc = "returned"
    /\ call.radius = MaxRadius
    /\ call.covered_houses # {} /\ call.covered_cells # {}
    /\ Cardinality(call.covered_houses \cup call.covered_cells) < 13

\* how many facilities of the placement sol have position and type t
TripleCount(sol, t) ==
    Cardinality({j \in 1..Len(sol) : <<sol[j].x, sol[j].y, sol[j].type>> = t})

\* e is the order-independent form of the placement sol: it holds the
\* (x, y, type) triples of sol, each as often as sol does, in ascending order
CanonicalOf(e, sol) ==
    /\ Len(e) = Len(sol)
    /\ \A j \in 1..Len(e) :
           Cardinality({l \in 1..Len(e) : e[l] = e[j]}) = TripleCount(sol, e[j])
    /\ \A j \in 1..Len(e) : \A l \in 1..Len(e) :
           j < l =>
               \/ e[j][1] < e[l][1]
               \/ e[j][1] = e[l][1] /\ e[j][2] < e[l][2]
               \/ e[j][1] = e[l][1] /\ e[j][2] = e[l][2] /\ e[j][3] = e[l][3]
               \/ /\ e[j][1] = e[l][1] /\ e[j][2] = e[l][2]
                  /\ <<e[j][3], e[l][3]>> \in
                         {<<"Femto", "Macro">>, <<"Femto", "Micro">>, <<"Femto", "Pico">>,
                          <<"Macro", "Micro">>, <<"Macro", "Pico">>, <<"Micro", "Pico">>}

\* C22: after every tabu-search iteration the tabu memory holds at most
\* tabu_size entries; an iteration appends the canonical, order-independent
\* form of the whole current solution, and on overflow evicts the oldest
\* entry (FIFO).
C22_TabuMemoryBoundedFifoCanonical ==
    /\ [](alg = "tabu" => Len(tabu_list) <= inst.tabu_size)
    /\ [][(alg = "tabu" /\ iteration' = iteration + 1) =>
            \E e \in Range(tabu_list') :
                /\ CanonicalOf(e, current_solution)
                /\ tabu_list' = IF Len(tabu_list) < inst.tabu_size
                                THEN Append(tabu_list, e)
                                ELSE Append(Tail(tabu_list), e)]_vars

\* the memory is full after an eviction and holds a placement of two facilities
C22_Witness ==
    /\ alg = "tabu"
    /\ iteration > inst.tabu_size
    /\ Len(tabu_list) = inst.tabu_size
    /\ \E j \in 1..Len(tabu_list) :
           Len(tabu_list[j]) = 2 /\ tabu_list[j][1] # tabu_list[j][2]

\* the placement s is not in the tabu memory, or beats the best-ever energy
NotTabuOrAspires(s) ==
    \/ \A j \in 1..Len(tabu_list) : tabu_list[j] # solution_to_tuple(s)
    \/ Energy(inst, s, LS_COST_DIVISOR) < best_energy

\* C23: in each tabu-search iteration the next current solution is a
\* minimum-energy neighbor among the generated neighbors that are not in the
\* tabu memory or beat the best-ever energy; a tabu neighbor that does not
\* beat the best-ever energy is never selected; the search stops before its
\* iteration cap only when no generated neighbor is admissible.
C23_TabuSelectsBestAdmissible ==
    [][alg = "tabu" /\ pc = "loop" =>
        /\ iteration' = iteration + 1 =>
               /\ NotTabuOrAspires(current_solution')
               /\ \E nbs \in TabuNeighborSets(inst, current_solution) :
                      /\ \E n \in nbs : n.sol = current_solution'
                      /\ \A m \in nbs :
                             NotTabuOrAspires(m.sol) =>
                                 Energy(inst, current_solution', LS_COST_DIVISOR)
                                     <= Energy(inst, m.sol, LS_COST_DIVISOR)
        /\ (pc' = "done" /\ iteration < inst.iterations) =>
               \E nbs \in TabuNeighborSets(inst, current_solution) :
                   \A m \in nbs : ~NotTabuOrAspires(m.sol)]_vars

\* an iteration is about to run whose generated neighbors include a tabu one
\* of lower energy than every admissible one
C23_Witness ==
    /\ alg = "tabu" /\ pc = "loop" /\ iteration < inst.iterations
    /\ \E nbs \in TabuNeighborSets(inst, current_solution) :
           \E t \in nbs :
               /\ ~NotTabuOrAspires(t.sol)
               /\ \E m \in nbs : NotTabuOrAspires(m.sol)
               /\ \A m \in nbs :
                      NotTabuOrAspires(m.sol) =>
                          Energy(inst, t.sol, LS_COST_DIVISOR)
                              < Energy(inst, m.sol, LS_COST_DIVISOR)

\* C24: hill climbing replaces the current placement only by a sampled
\* neighbor of strictly lower energy, so the current energy strictly decreases
\* at every accepted iteration; the loop is left only at an iteration whose
\* best sampled neighbor is not strictly better, or at the iteration cap, and
\* never runs more than max_iterations iterations.
C24_HillClimbingStrictDescent ==
    /\ [](alg = "hc" /\ pc # "start" => iteration <= inst.max_iterations)
    /\ [][alg = "hc" /\ pc = "loop" =>
            /\ current_solution' # current_solution \/ current_energy' # current_energy =>
                   /\ pc' = "loop" /\ iteration' = iteration + 1
                   /\ current_energy = Energy(inst, current_solution, LS_COST_DIVISOR)
                   /\ current_energy' = Energy(inst, current_solution', LS_COST_DIVISOR)
                   /\ current_energy' < current_energy
                   /\ \E nbs \in HCNeighborSets(inst, current_solution) :
                          \E n \in nbs : n.sol = current_solution'
            /\ pc' = "loop" =>
                   /\ iteration' = iteration + 1
                   /\ current_energy' < current_energy
            /\ pc' = "done" =>
                   \/ iteration >= inst.max_iterations
                   \/ \E nbs \in HCNeighborSets(inst, current_solution) :
                          \A n \in nbs :
                              Energy(inst, n.sol, LS_COST_DIVISOR) >= current_energy]_vars

\* a climb of two accepted iterations that then stops at the third, whose
\* best sampled neighbor is not better
C24_Witness ==
    /\ alg = "hc" /\ pc = "done"
    /\ iteration = 3 /\ iteration <= inst.max_iterations
    /\ current_energy = Energy(inst, current_solution, LS_COST_DIVISOR)
    /\ \E nbs \in HCNeighborSets(inst, current_solution) :
           /\ nbs # {}
           /\ \A n \in nbs : Energy(inst, n.sol, LS_COST_DIVISOR) >= current_energy

\* C25: simulated annealing generates no neighbor once
\* early_stopping_iterations consecutive iterations have passed without
\* improving the best energy: an inner iteration starts only with fewer
\* than that many iterations since the last improvement.
C25_NoNeighborAfterStaleIterations ==
    [][(alg = "sa" /\ iteration' = iteration + 1 /\ inst.early_stopping_iterations # None) =>
          iterations_since_improvement < inst.early_stopping_iterations]_vars

\* the run of simulated annealing takes at most iterations_per_temp inner
\* iterations per temperature level, and the levels above the floor are finite
SAIterationsBounded ==
    alg = "sa" /\ pc # "start" =>
        iteration <= inst.iterations_per_temp * MaxTemperature

\* C26: each VNS step shakes the current placement with the current
\* intensity k, 1 <= k <= k_max, by k rounds on a copy, and polishes the
\* result; a polished objective strictly below the current one makes the
\* polished placement current and resets k to 1, otherwise the current
\* placement is left as it was and k grows by 1.
C26_VNSStepShakesAndMoves ==
    /\ [](alg = "vns" /\ pc \in {"outer", "inner"} =>
            current_energy = calculate_objective(inst, current_solution))
    /\ [][(alg = "vns" /\ shake_steps' = shake_steps + 1) =>
            /\ 1 <= k /\ k <= inst.k_max
            /\ \E shaken \in shake(inst, {current_solution}, k) :
                   LET polished == local_search(inst, shaken, VNS_LOCAL_ITERS)
                       obj == calculate_objective(inst, polished)
                   IN  IF ObjLess(obj, calculate_objective(inst, current_solution))
                       THEN /\ current_solution' = polished
                            /\ current_energy' = obj
                            /\ k' = 1
                       ELSE /\ current_solution' = current_solution
                            /\ current_energy' = current_energy
                            /\ k' = k + 1]_vars

\* two steps were taken, the first one improving and the second one not
C26_Witness ==
    /\ alg = "vns" /\ pc = "inner"
    /\ shake_steps = 2 /\ k = 2
    /\ current_solution # <<>>

(***************************************************************************)
(* GeneticAlgorithm.crossover, executed statement by statement             *)
(***************************************************************************)
MaxParentLen == 2

\* one house at (0, 0) on a 3x1 grid: a Femto at (2, 0) covers no house
CrossoverProblems ==
    {Problem(3, 1, << <<0, 0>> >>, <<>>, b, c) : b \in {None, 900}, c \in {1, 2}}

CrossoverGenes ==
    {GAAntenna(Catalog[1], 1, 0), GAAntenna(Catalog[1], 2, 0), GAAntenna(Catalog[2], 1, 0)}

CrossoverParents == UNION {[1..n -> CrossoverGenes] : n \in 0..MaxParentLen}

PopMostExpensiveMutCheapest(s) == SubSeq(SortByCostDesc(s), 1, Len(s) - 1)

\* child.sort(key=cost, reverse=True); child.pop(0)
PopMostExpensive(s) == Tail(SortByCostDesc(s))

\* the frame of crossover(parent1, parent2) on entry
CrossoverFrame(parent1, parent2) ==
    [name |-> "crossover", pc |-> "start", parent1 |-> parent1, parent2 |-> parent2,
     point1 |-> 0, point2 |-> 0, child1 |-> <<>>, child2 |-> <<>>, idx |-> 0,
     crossed |-> FALSE]

\* random.random() > crossover_rate, or an empty parent: copies of the
\* parents are returned (lines 204-205)
CrossoverCopy ==
    /\ call.name = "crossover" /\ call.pc = "start"
    /\ call' = [call EXCEPT !.child1 = call.parent1, !.child2 = call.parent2,
                            !.pc = "returned"]
    /\ UNCHANGED <<driverVars, seedVars, histVars, sys>>

\* the two cut points, the recombination and remove_useless_antennas on
\* both children (lines 207-215)
CrossoverRecombine ==
    /\ call.name = "crossover" /\ call.pc = "start"
    /\ call.parent1 # <<>> /\ call.parent2 # <<>>
    /\ \E point1 \in 0..Len(call.parent1), point2 \in 0..Len(call.parent2) :
           call' = [call EXCEPT
                      !.point1 = point1, !.point2 = point2,
                      !.child1 = GARemoveUseless(inst,
                                    SubSeq(call.parent1, 1, point1)
                                        \o SubSeq(call.parent2, point2 + 1, Len(call.parent2))),
                      !.child2 = GARemoveUseless(inst,
                                    SubSeq(call.parent2, 1, point2)
                                        \o SubSeq(call.parent1, point1 + 1, Len(call.parent1))),
                      !.crossed = TRUE,
                      !.pc = "count"]
    /\ UNCHANGED <<driverVars, seedVars, histVars, sys>>

\* child = child[:max_allowed] for both children, then `if self.max_budget`
\* (lines 218-227)
CrossoverCount ==
    /\ call.name = "crossover" /\ call.pc = "count"
    /\ LET max_allowed == IF Truthy(inst.max_antennas) THEN inst.max_antennas
                          ELSE GA_DEFAULT_MAX_ANTENNAS
           cut(c) == IF Len(c) > max_allowed THEN SubSeq(c, 1, max_allowed) ELSE c
       IN  call' = [call EXCEPT
                      !.child1 = cut(call.child1), !.child2 = cut(call.child2),
                      !.idx = 1,
                      !.pc = IF Truthy(inst.max_budget) THEN "budget" ELSE "returned"]
    /\ UNCHANGED <<driverVars, seedVars, histVars, sys>>

\* one pass of `while total_cost > self.max_budget and child` (lines 230-233)
CrossoverPop ==
    /\ call.name = "crossover" /\ call.pc = "budget"
    /\ LET child == IF call.idx = 1 THEN call.child1 ELSE call.child2 IN
        /\ TotalCost(child) > inst.max_budget /\ child # <<>>
        /\ call' = IF call.idx = 1
                   THEN [call EXCEPT !.child1 = PopMostExpensive(child)]
                   ELSE [call EXCEPT !.child2 = PopMostExpensive(child)]
    /\ UNCHANGED <<driverVars, seedVars, histVars, sys>>

\* the while loop of one child ends: the next child, or return (lines 228, 235)
CrossoverNextChild ==
    /\ call.name = "crossover" /\ call.pc = "budget"
    /\ LET child == IF call.idx = 1 THEN call.child1 ELSE call.child2 IN
        ~(TotalCost(child) > inst.max_budget /\ child # <<>>)
    /\ call' = IF call.idx = 1 THEN [call EXCEPT !.idx = 2]
               ELSE [call EXCEPT !.pc = "returned"]
    /\ UNCHANGED <<driverVars, seedVars, histVars, sys>>

CrossoverInit ==
    /\ alg = "none" /\ pc = "call"
    /\ inst \in CrossoverProblems
    /\ DriversIdle
    /\ sys = NoSystem
    /\ \E parent1 \in CrossoverParents, parent2 \in CrossoverParents :
           call = CrossoverFrame(parent1, parent2)

CrossoverNext ==
    \/ CrossoverCopy
    \/ CrossoverRecombine
    \/ CrossoverCount
    \/ CrossoverPop
    \/ CrossoverNextChild

CrossoverSpec == CrossoverInit /\ [][CrossoverNext]_vars

\* the number of times e occurs in the list s
Occ(s, e) == Cardinality({j \in 1..Len(s) : s[j] = e})

\* child keeps facilities of from, and each facility of from it lacks costs at
\* least as much as each facility it keeps
KeepsTheCheapest(child, from) ==
    /\ \A e \in Range(child) : Occ(child, e) <= Occ(from, e)
    /\ \A d \in Range(from) : \A e \in Range(child) :
           Occ(from, d) > Occ(child, d) => d.cost >= e.cost

\* the facilities of from that child lacks
Discarded(child, from) == {d \in Range(from) : Occ(from, d) > Occ(child, d)}

ChildWithinCaps(i, child) ==
    /\ Len(child) <= GAMaxAntennas(i)
    /\ Truthy(i.max_budget) => TotalCost(child) <= i.max_budget

\* the recombination of the parents at the cut points, pruned of the
\* facilities that cover no house
PrunedChild(n) ==
    LET a == IF n = 1 THEN call.parent1 ELSE call.parent2
        b == IF n = 1 THEN call.parent2 ELSE call.parent1
        pa == IF n = 1 THEN call.point1 ELSE call.point2
        pb == IF n = 1 THEN call.point2 ELSE call.point1
        raw == SubSeq(a, 1, pa) \o SubSeq(b, pb + 1, Len(b))
    IN  SelectSeq(raw, LAMBDA f : \E h \in HouseSet(inst) :
                          (f.x - h[1]) * (f.x - h[1]) + (f.y - h[2]) * (f.y - h[2])
                              <= f.radius * f.radius)

ReturnedChild(n) == IF n = 1 THEN call.child1 ELSE call.child2

\* C27: a child recombined by crossover is the pruned recombination brought
\* under the count cap and the budget cap by discarding most expensive
\* facilities only: it is within both caps and every facility discarded
\* costs at least as much as every facility kept.
C27_ChildrenDiscardMostExpensive ==
    (call.name = "crossover" /\ call.pc = "returned" /\ call.crossed) =>
        \A n \in {1, 2} :
            /\ ChildWithinCaps(inst, ReturnedChild(n))
            /\ KeepsTheCheapest(ReturnedChild(n), PrunedChild(n))

\* C27, amended: a child recombined by crossover is the pruned recombination
\* cut to its first facilities up to the count cap, and then brought under
\* the budget cap by repeatedly discarding the most expensive remaining
\* facility: no facility is dropped while the cut list is within the budget.
C27_ChildrenCutThenDiscardMostExpensive ==
    (call.name = "crossover" /\ call.pc = "returned" /\ call.crossed) =>
        \A n \in {1, 2} :
            LET pruned == PrunedChild(n)
                cut == SubSeq(pruned, 1, Min2(Len(pruned), GAMaxAntennas(inst)))
                child == ReturnedChild(n)
            IN  /\ ChildWithinCaps(inst, child)
                /\ KeepsTheCheapest(child, cut)
                /\ \A d \in Discarded(child, cut) :
                       /\ Truthy(inst.max_budget)
                       /\ TotalCost(child) + d.cost > inst.max_budget

\* a returned child whose cut dropped a cheaper facility than one it kept,
\* and whose budget trim then dropped the most expensive one
C27_Witness ==
    /\ call.name = "crossover" /\ call.pc = "returned" /\ call.crossed
    /\ \E n \in {1, 2} :
           LET pruned == PrunedChild(n)
               cut == SubSeq(pruned, 1, Min2(Len(pruned), GAMaxAntennas(inst)))
           IN  /\ Len(pruned) > Len(cut)
               /\ ~KeepsTheCheapest(cut, pruned)
               /\ Discarded(ReturnedChild(n), cut) # {}

(***************************************************************************)
(* AntennaPlacementSystem (antenna_system.py): the object is `sys`, the    *)
(* constructor arguments are `inst`, the last method call is `call`        *)
(***************************************************************************)
MaxPlaced == 2

ANTENNA_TYPES ==
    << [name |-> "Macro", coverage_radius_m |-> 5000, capacity_users |-> 2000, cost |-> 25000],
       [name |-> "Micro", coverage_radius_m |-> 2000, capacity_users |-> 500, cost |-> 12000],
       [name |-> "Pico", coverage_radius_m |-> 300, capacity_users |-> 100, cost |-> 5000],
       [name |-> "Femto", coverage_radius_m |-> 50, capacity_users |-> 20, cost |-> 1000] >>

\* ANTENNA_TYPES.get(name): <<>> for None
ANTENNA_TYPES_get(name) == SelectSeq(ANTENNA_TYPES, LAMBDA t : t.name = name)

\* coverage_radius_m / 50.0 (the radii of the catalog are multiples of 50)
coverage_radius_squares(t) == t.coverage_radius_m \div 50

Zone(id, x, y, users) == [id |-> id, x |-> x, y |-> y, users |-> users]

\* PlacedAntenna(antenna_type, x, y, id) after __post_init__
PlacedAntenna(t, x, y, id) ==
    [antenna_type |-> t, x |-> x, y |-> y, id |-> id, covered_zones |-> <<>>,
     served_zones |-> <<>>, remaining_capacity |-> t.capacity_users]

\* the square of euclidean_distance: sqrt is monotone, and exact on squares
DistanceSquared(x1, y1, x2, y2) == (x1 - x2) * (x1 - x2) + (y1 - y2) * (y1 - y2)

is_zone_coveredMutStrict(zone, antenna) ==
    DistanceSquared(zone.x, zone.y, antenna.x, antenna.y)
        < coverage_radius_squares(antenna.antenna_type)
            * coverage_radius_squares(antenna.antenna_type)

is_zone_covered(zone, antenna) ==
    DistanceSquared(zone.x, zone.y, antenna.x, antenna.y)
        <= coverage_radius_squares(antenna.antenna_type)
            * coverage_radius_squares(antenna.antenna_type)

\* AntennaPlacementSystem.__init__
NewSystem(zones, budget_limit, max_antennas) ==
    [zones |-> zones, budget_limit |-> budget_limit, max_antennas |-> max_antennas,
     placed_antennas |-> <<>>, next_antenna_id |-> 1,
     occupied_positions |-> {<<zones[j].x, zones[j].y>> : j \in 1..Len(zones)}]

can_place_antenna(s, x, y) == <<x, y>> \notin s.occupied_positions

RECURSIVE SumOfCosts(_)
SumOfCosts(as) ==
    IF as = <<>> THEN 0 ELSE Head(as).antenna_type.cost + SumOfCosts(Tail(as))

get_total_cost(s) == SumOfCosts(s.placed_antennas)

place_antennaMutNoBudget(s, name, x, y) ==
    IF ~can_place_antenna(s, x, y) THEN [sys |-> s, ret |-> <<>>]
    ELSE IF s.max_antennas # None /\ Len(s.placed_antennas) >= s.max_antennas
    THEN [sys |-> s, ret |-> <<>>]
    ELSE IF ANTENNA_TYPES_get(name) = <<>> THEN [sys |-> s, ret |-> <<>>]
    ELSE LET antenna == PlacedAntenna(ANTENNA_TYPES_get(name)[1], x, y, s.next_antenna_id)
         IN  [sys |-> [s EXCEPT !.next_antenna_id = @ + 1,
                                !.placed_antennas = Append(@, antenna)],
              ret |-> <<antenna>>]

\* place_antenna: the system after the call and the value returned (<<>> for None)
place_antenna(s, name, x, y) ==
    IF ~can_place_antenna(s, x, y) THEN [sys |-> s, ret |-> <<>>]
    ELSE IF s.max_antennas # None /\ Len(s.placed_antennas) >= s.max_antennas
    THEN [sys |-> s, ret |-> <<>>]
    ELSE IF ANTENNA_TYPES_get(name) = <<>> THEN [sys |-> s, ret |-> <<>>]
    ELSE IF /\ s.budget_limit # None
            /\ get_total_cost(s) + ANTENNA_TYPES_get(name)[1].cost > s.budget_limit
    THEN [sys |-> s, ret |-> <<>>]
    ELSE LET antenna == PlacedAntenna(ANTENNA_TYPES_get(name)[1], x, y, s.next_antenna_id)
         IN  [sys |-> [s EXCEPT !.next_antenna_id = @ + 1,
                                !.placed_antennas = Append(@, antenna)],
              ret |-> <<antenna>>]

\* compute_coverage: covered_zones of every antenna, in the order of self.zones
compute_coverage(s) ==
    [s EXCEPT !.placed_antennas =
        [a \in 1..Len(s.placed_antennas) |->
            [s.placed_antennas[a] EXCEPT !.covered_zones =
                SelectSeq(s.zones, LAMBDA z : is_zone_covered(z, s.placed_antennas[a]))]]]

\* the (antenna, zone, distance) tuples of one antenna, a the index of the antenna
RECURSIVE CandidatesOf(_, _, _)
CandidatesOf(a, antenna, zones) ==
    IF zones = <<>> THEN <<>>
    ELSE <<[antenna |-> a, zone |-> Head(zones),
            distance |-> DistanceSquared(Head(zones).x, Head(zones).y, antenna.x, antenna.y)]>>
         \o CandidatesOf(a, antenna, Tail(zones))

RECURSIVE CoverageCandidates(_, _)
CoverageCandidates(placed, a) ==
    IF a > Len(placed) THEN <<>>
    ELSE CandidatesOf(a, placed[a], placed[a].covered_zones)
         \o CoverageCandidates(placed, a + 1)

\* coverage_candidates.sort(key=distance): stable
RECURSIVE InsertByDistance(_, _)
InsertByDistance(s, e) ==
    IF s = <<>> THEN <<e>>
    ELSE IF Head(s).distance <= e.distance THEN <<Head(s)>> \o InsertByDistance(Tail(s), e)
         ELSE <<e>> \o s

RECURSIVE SortByDistance(_)
SortByDistance(s) ==
    IF s = <<>> THEN <<>>
    ELSE InsertByDistance(SortByDistance(SubSeq(s, 1, Len(s) - 1)), s[Len(s)])

HasCapacityMutAlways(antenna, zone) == TRUE

\* antenna.remaining_capacity >= zone.users
HasCapacity(antenna, zone) == antenna.remaining_capacity >= zone.users

\* the assignment loop over the sorted candidates
RECURSIVE AssignLoop(_, _, _)
AssignLoop(placed, assigned_zones, candidates) ==
    IF candidates = <<>> THEN placed
    ELSE LET c == Head(candidates) IN
         IF c.zone.id \in assigned_zones \/ ~HasCapacity(placed[c.antenna], c.zone)
         THEN AssignLoop(placed, assigned_zones, Tail(candidates))
         ELSE AssignLoop([placed EXCEPT
                             ![c.antenna].served_zones = Append(@, c.zone),
                             ![c.antenna].remaining_capacity = @ - c.zone.users],
                         assigned_zones \cup {c.zone.id}, Tail(candidates))

assign_users(s) ==
    LET reset == [a \in 1..Len(s.placed_antennas) |->
                    [s.placed_antennas[a] EXCEPT
                        !.served_zones = <<>>,
                        !.remaining_capacity = s.placed_antennas[a].antenna_type.capacity_users]]
    IN  [s EXCEPT !.placed_antennas =
            AssignLoop(reset, {}, SortByDistance(CoverageCandidates(reset, 1)))]

\* check_constraints: the dict, as a function on the keys present
check_constraints(s) ==
    [key \in (IF s.budget_limit # None THEN {"budget_satisfied"} ELSE {})
             \cup (IF s.max_antennas # None THEN {"max_antennas_satisfied"} ELSE {}) |->
        IF key = "budget_satisfied" THEN get_total_cost(s) <= s.budget_limit
        ELSE Len(s.placed_antennas) <= s.max_antennas]

\* the zone lists, limits and call arguments the system is exercised with
SystemZones ==
    {<<Zone(1, 0, 0, u)>> : u \in {20, 60}}
    \cup {<<Zone(1, 0, 0, u[1]), Zone(2, 2, 0, u[2])>> : u \in {20, 60} \X {20, 60}}
SystemArguments ==
    [zones : SystemZones, budget_limit : {None, 6000}, max_antennas : {None, 1}]
TypeNames == {"Femto", "Pico", "Nano"}
CallCells == (0..3) \X {0}

\* a call place_antenna(name, x, y) with any arguments
SysPlaceAntenna ==
    /\ call.name # "none"
    /\ Len(sys.placed_antennas) < MaxPlaced
    /\ \E name \in TypeNames, c \in CallCells :
        LET r == place_antenna(sys, name, c[1], c[2]) IN
        /\ sys' = r.sys
        /\ call' = [name |-> "place_antenna", prev |-> call.name,
                    antenna_type_name |-> name, x |-> c[1], y |-> c[2], ret |-> r.ret]
    /\ UNCHANGED <<driverVars, seedVars, histVars>>

SysComputeCoverage ==
    /\ call.name \in {"__init__", "place_antenna", "assign_users"}
    /\ sys' = compute_coverage(sys)
    /\ call' = [name |-> "compute_coverage", prev |-> call.name]
    /\ UNCHANGED <<driverVars, seedVars, histVars>>

SysAssignUsers ==
    /\ call.name \in {"__init__", "place_antenna", "compute_coverage"}
    /\ sys' = assign_users(sys)
    /\ call' = [name |-> "assign_users", prev |-> call.name]
    /\ UNCHANGED <<driverVars, seedVars, histVars>>

SysInit ==
    /\ alg = "none" /\ pc = "call"
    /\ inst \in SystemArguments
    /\ DriversIdle
    /\ sys = NewSystem(inst.zones, inst.budget_limit, inst.max_antennas)
    /\ call = [name |-> "__init__", prev |-> "none"]

SysNext == SysPlaceAntenna \/ SysComputeCoverage \/ SysAssignUsers

SysSpec == SysInit /\ [][SysNext]_vars

RECURSIVE SumOfUsers(_)
SumOfUsers(zs) == IF zs = <<>> THEN 0 ELSE Head(zs).users + SumOfUsers(Tail(zs))

\* the zone is within the coverage radius (metres, one square = 50 m) of the antenna
InRadius(zone, antenna) ==
    2500 * ((zone.x - antenna.x) * (zone.x - antenna.x)
                + (zone.y - antenna.y) * (zone.y - antenna.y))
        <= antenna.antenna_type.coverage_radius_m * antenna.antenna_type.coverage_radius_m

\* the indices of the antennas that serve the zone
ServersOf(zone) ==
    {a \in 1..Len(sys.placed_antennas) : Occ(sys.placed_antennas[a].served_zones, zone) > 0}

\* the capacity antenna b has left when its pair with the zone is considered:
\* the zones it serves that come before, nearer or as near and earlier in
\* self.zones, have been taken off
CapacityWhenConsidered(b, zone) ==
    LET antenna == sys.placed_antennas[b]
        d(z) == DistanceSquared(z.x, z.y, antenna.x, antenna.y)
        pos(z) == CHOOSE j \in 1..Len(sys.zones) : sys.zones[j] = z
        before == SelectSeq(antenna.served_zones,
                            LAMBDA y : \/ d(y) < d(zone)
                                       \/ d(y) = d(zone) /\ pos(y) < pos(zone))
    IN  antenna.antenna_type.capacity_users - SumOfUsers(before)

\* C28: after compute_coverage followed by assign_users every zone is served
\* by at most one antenna, every served zone is within the radius of its
\* antenna, no antenna serves more users than its capacity, with
\* remaining_capacity the non-negative rest, and a zone is served by the
\* nearest covering antenna that has enough capacity left when the zone is
\* considered: every strictly nearer covering antenna, and every covering
\* antenna of an unserved zone, lacked the capacity.
C28_AssignmentNearestWithinCapacity ==
    (call.name = "assign_users" /\ call.prev = "compute_coverage") =>
        LET placed == sys.placed_antennas
            zones == Range(sys.zones)
            far(a, z) == DistanceSquared(z.x, z.y, placed[a].x, placed[a].y)
        IN  /\ \A z \in zones :
                   /\ Cardinality(ServersOf(z)) <= 1
                   /\ \A a \in ServersOf(z) : Occ(placed[a].served_zones, z) = 1
            /\ \A a \in 1..Len(placed) :
                   /\ \A z \in Range(placed[a].served_zones) :
                          z \in zones /\ InRadius(z, placed[a])
                   /\ SumOfUsers(placed[a].served_zones)
                          <= placed[a].antenna_type.capacity_users
                   /\ placed[a].remaining_capacity
                          = placed[a].antenna_type.capacity_users
                                - SumOfUsers(placed[a].served_zones)
                   /\ placed[a].remaining_capacity >= 0
            /\ \A z \in zones : \A b \in 1..Len(placed) :
                   (InRadius(z, placed[b]) /\ b \notin ServersOf(z)) =>
                       \/ \E a \in ServersOf(z) : far(a, z) <= far(b, z)
                       \/ CapacityWhenConsidered(b, z) < z.users

\* the assignment has left a zone to a farther antenna because a strictly
\* nearer covering antenna lacked the capacity, and another antenna has
\* served a zone although it covers two
C28_Witness ==
    /\ call.name = "assign_users" /\ call.prev = "compute_coverage"
    /\ \E z \in Range(sys.zones) : \E a \in ServersOf(z) :
           \E b \in 1..Len(sys.placed_antennas) :
               /\ InRadius(z, sys.placed_antennas[b])
               /\ DistanceSquared(z.x, z.y, sys.placed_antennas[b].x, sys.placed_antennas[b].y)
                      < DistanceSquared(z.x, z.y, sys.placed_antennas[a].x,
                                        sys.placed_antennas[a].y)
               /\ sys.placed_antennas[b].served_zones # <<>>

\* the total cost of the placed antennas, from the catalog prices
PlacedCost ==
    LET price(a) == IF a.antenna_type.name = "Macro" THEN 25000
                    ELSE IF a.antenna_type.name = "Micro" THEN 12000
                    ELSE IF a.antenna_type.name = "Pico" THEN 5000 ELSE 1000
        sum[n \in 0..Len(sys.placed_antennas)] ==
            IF n = 0 THEN 0 ELSE sum[n - 1] + price(sys.placed_antennas[n])
    IN  sum[Len(sys.placed_antennas)]

\* place_antenna(name, x, y) must refuse in the current state of the system
MustRefuse(name, x, y) ==
    \/ \E j \in 1..Len(sys.zones) : sys.zones[j].x = x /\ sys.zones[j].y = y
    \/ sys.max_antennas # None /\ Len(sys.placed_antennas) >= sys.max_antennas
    \/ name \notin {"Macro", "Micro", "Pico", "Femto"}
    \/ /\ sys.budget_limit # None
       /\ PlacedCost + (CASE name = "Macro" -> 25000 [] name = "Micro" -> 12000
                          [] name = "Pico" -> 5000 [] OTHER -> 1000) > sys.budget_limit

\* C29: place_antenna returns None and leaves placed_antennas and
\* next_antenna_id unchanged when the position is a zone cell, the count cap
\* is reached, the type name is unknown or the new total cost would exceed
\* budget_limit; so after any sequence of calls check_constraints reports
\* every active constraint satisfied and the antenna ids are unique.
C29_RefusedPlacementsKeepConstraints ==
    /\ [](/\ \A key \in DOMAIN check_constraints(sys) : check_constraints(sys)[key]
          /\ sys.budget_limit # None => PlacedCost <= sys.budget_limit
          /\ sys.max_antennas # None => Len(sys.placed_antennas) <= sys.max_antennas
          /\ \A a, b \in 1..Len(sys.placed_antennas) :
                 a # b => sys.placed_antennas[a].id # sys.placed_antennas[b].id)
    /\ [][(call'.name = "place_antenna"
              /\ MustRefuse(call'.antenna_type_name, call'.x, call'.y)) =>
            /\ call'.ret = <<>>
            /\ sys'.placed_antennas = sys.placed_antennas
            /\ sys'.next_antenna_id = sys.next_antenna_id]_vars

\* a placement has been refused for its cost alone, after an accepted one
C29_Witness ==
    /\ call.name = "place_antenna" /\ call.ret = <<>>
    /\ Len(sys.placed_antennas) = 1 /\ sys.next_antenna_id = 2
    /\ sys.max_antennas = None /\ sys.budget_limit # None
    /\ call.antenna_type_name = "Pico"
    /\ \A j \in 1..Len(sys.zones) : <<sys.zones[j].x, sys.zones[j].y>> # <<call.x, call.y>>

\* the energy of a placement as the running driver computes it
DriverEnergy(sol) ==
    Energy(inst, sol, IF alg = "sa" THEN SA_COST_DIVISOR ELSE LS_COST_DIVISOR)

\* C30: in simulated annealing and tabu search best_energy is, at every
\* iteration boundary, the least energy of the solutions that have been
\* current so far: it starts as the energy of the initial solution and after
\* each iteration is the lesser of its old value and the new current energy,
\* so it never increases and never exceeds current_energy; best_solution has
\* that energy, is the current solution of the iteration that lowered it, and
\* is left as it was by every iteration that does not lower it.
C30_BestIsLeastVisited ==
    /\ []((alg \in {"sa", "tabu"} /\ pc \in {"loop", "exit", "done"}) =>
            /\ best_energy <= current_energy
            /\ best_energy = DriverEnergy(best_solution)
            /\ current_energy = DriverEnergy(current_solution))
    /\ [][(alg = "sa" \/ alg = "tabu") =>
            /\ (pc = "start" /\ pc' = "loop") =>
                   /\ best_energy' = current_energy'
                   /\ best_solution' = current_solution'
            /\ pc \in {"loop", "exit"} =>
                   /\ best_energy' = Min2(best_energy, current_energy')
                   /\ best_energy' = best_energy => best_solution' = best_solution
                   /\ best_energy' < best_energy => best_solution' = current_solution']_vars

\* simulated annealing has lowered the best energy below the initial one and
\* then moved the current solution on to a worse one
C30_Witness ==
    /\ alg = "sa" /\ pc = "loop" /\ iteration >= 2
    /\ best_energy < current_energy
    /\ best_solution # current_solution
    /\ \E s \in RingInitialSolutions(inst, SA_MAX_INITIAL_ANTENNAS) :
           best_energy < Energy(inst, s, SA_COST_DIVISOR)

=============================================================================
